---------------------------- MODULE Spec2Model ----------------------------
(***************************************************************************)
(* Model of stockwatch: the trend-classification engine,                  *)
(*   src/stockwatch/indicators.py  (pure indicator functions)              *)
(*   src/stockwatch/trend.py       (sub-scores, composite, label)          *)
(* and the daily pipeline over its SQLite database,                        *)
(*   src/stockwatch/storage/       (schema and repository functions)       *)
(*   src/stockwatch/delivery/      (files, e-mail, tweet)                  *)
(*   src/stockwatch/orchestrator.py  (run_daily_pipeline)                  *)
(*                                                                         *)
(* Spec applies the engine's functions to bounded inputs; PipelineSpec     *)
(* runs the pipeline day after day under one configuration and provider;   *)
(* DeliverySpec calls insert_report and post_digest_tweet on their own;    *)
(* StorageSpec calls upsert_prices, get_adj_close_series and               *)
(* _compute_indicators_for_ticker; Binary64Spec classifies constant series *)
(* with the moving averages computed in binary64.                          *)
(*                                                                         *)
(* Numbers.  A Python float is modelled by an exact rational <<n, d>> in   *)
(* lowest terms with d > 0.  Three values that are not numbers share the   *)
(* shape: NaN == <<0, 0>>, None == <<0, -1>> and the marker                *)
(* ZeroDivisionError == <<0, -2>> for a call that raises.  Rounding        *)
(* (round(x, k)) and the square root are computed to the decimal the code  *)
(* keeps; binary representation error of a float (a few units in the 16th  *)
(* digit) is modelled in Binary64Spec only, by the operators named ...64,  *)
(* and the infinities are not modelled: every price is a finite number or  *)
(* NaN, far from the overflow of a float.                                  *)
(***************************************************************************)
EXTENDS Integers, Sequences, FiniteSets, TLC

VARIABLES
    prices,     \* the price series handed to the indicators and to classify
    volumes,    \* the volume series handed to classify
    scalars,    \* <<price, x, y>>: the arguments handed to the sub-score helpers
    pc,         \* "start", or the name of the function that has been applied
    call,       \* the parameters of that call (thresholds, window, period)
    ret,        \* the value an indicator or a helper returned
    result,     \* what classify returned (a TrendResult) or raised
    today,      \* date.today(), a day number
    conn,       \* the SQLite database: its tables and AUTOINCREMENT counters
    reports_dir,\* the run dates whose artifact files are on disk
    timeline,   \* per run date, how many calls of create_tweet succeeded
    config,     \* the Config the process was started with
    provider,   \* per ticker, how often fetch_ohlcv raises before it answers
    run         \* the last pipeline run or delivery call and how it ended

vars == <<prices, volumes, scalars, pc, call, ret, result,
          today, conn, reports_dir, timeline, config, provider, run>>

---------------------------------------------------------------------------
(* Rational arithmetic standing for float arithmetic.                      *)

None == <<0, -1>>
NaN == <<0, 0>>
ZeroDivisionError == <<0, -2>>

IsNone(x) == x = None
isnan(x) == x = NaN
IsNum(x) == x[2] > 0

Abs(n) == IF n < 0 THEN -n ELSE n

RECURSIVE GCD(_, _)
GCD(a, b) == IF b = 0 THEN a ELSE GCD(b, a % b)

R(n, d) ==
    LET s == IF d < 0 THEN -1 ELSE 1
        g == GCD(Abs(n), Abs(d))
    IN  <<(s * n) \div g, (s * d) \div g>>

Num(n) == <<n, 1>>
Zero == Num(0)

RNeg(a) == <<-a[1], a[2]>>

RAdd(a, b) ==
    LET g == GCD(a[2], b[2])
    IN  R(a[1] * (b[2] \div g) + b[1] * (a[2] \div g), (a[2] \div g) * b[2])

RSub(a, b) == RAdd(a, RNeg(b))

RMul(a, b) ==
    LET g1 == GCD(Abs(a[1]), b[2])
        g2 == GCD(Abs(b[1]), a[2])
    IN  R((a[1] \div g1) * (b[1] \div g2), (a[2] \div g2) * (b[2] \div g1))

RInv(a) == IF a[1] > 0 THEN <<a[2], a[1]>> ELSE <<-a[2], -a[1]>>

RDiv(a, b) == RMul(a, RInv(b))

RLt(a, b) == RSub(a, b)[1] < 0
RLe(a, b) == RSub(a, b)[1] <= 0
RGt(a, b) == RLt(b, a)
RGe(a, b) == RLe(b, a)

RMax(a, b) == IF RGt(b, a) THEN b ELSE a
RMin(a, b) == IF RLt(b, a) THEN b ELSE a

RECURSIVE Pow10(_)
Pow10(k) == IF k = 0 THEN 1 ELSE 10 * Pow10(k - 1)

(* The first k decimal digits of r/d (0 <= r < d) by long division:        *)
(* <<digits read as an integer, final remainder>>.                         *)
RECURSIVE LongDiv(_, _, _, _)
LongDiv(acc, r, d, k) ==
    IF k = 0 THEN <<acc, r>>
    ELSE LongDiv(10 * acc + (10 * r) \div d, (10 * r) % d, d, k - 1)

(* round(x, k): nearest multiple of 10^-k, ties to the even multiple.      *)
Round(x, k) ==
    LET q0 == x[1] \div x[2]
        r0 == x[1] % x[2]
        ld == LongDiv(0, r0, x[2], k)
        m  == q0 * Pow10(k) + ld[1]
        up == \/ 2 * ld[2] > x[2]
              \/ 2 * ld[2] = x[2] /\ m % 2 = 1
    IN  R(IF up THEN m + 1 ELSE m, Pow10(k))

---------------------------------------------------------------------------
(* Natural numbers beyond the machine word, as little-endian sequences of  *)
(* limbs below Base with no leading zero limb; used for the sum of squares *)
(* behind volatility and to place its square root between two neighbouring *)
(* decimals.  A signed number is <<negative, magnitude>>.                  *)

Base == 10 * 10 * 10 * 10

RECURSIVE BigOf(_)
BigOf(n) == IF n = 0 THEN <<>> ELSE <<n % Base>> \o BigOf(n \div Base)

RECURSIVE BigMulSmall(_, _, _)
BigMulSmall(a, m, carry) ==
    IF a = <<>> THEN BigOf(carry)
    ELSE LET t == Head(a) * m + carry
         IN  <<t % Base>> \o BigMulSmall(Tail(a), m, t \div Base)

RECURSIVE BigAdd(_, _, _)
BigAdd(a, b, carry) ==
    IF a = <<>> /\ b = <<>> THEN BigOf(carry)
    ELSE LET x == IF a = <<>> THEN 0 ELSE Head(a)
             y == IF b = <<>> THEN 0 ELSE Head(b)
             t == x + y + carry
         IN  <<t % Base>> \o BigAdd(IF a = <<>> THEN a ELSE Tail(a),
                                    IF b = <<>> THEN b ELSE Tail(b),
                                    t \div Base)

(* a * b, one limb of b at a time *)
RECURSIVE BigMulLimbs(_, _)
BigMulLimbs(a, b) ==
    IF a = <<>> \/ b = <<>> THEN <<>>
    ELSE LET low  == IF Head(b) = 0 THEN <<>> ELSE BigMulSmall(a, Head(b), 0)
             high == BigMulLimbs(a, Tail(b))
         IN  BigAdd(low, IF high = <<>> THEN high ELSE <<0>> \o high, 0)

BigMul(a, b) == IF Len(a) < Len(b) THEN BigMulLimbs(b, a) ELSE BigMulLimbs(a, b)

RECURSIVE BigLeqFrom(_, _, _)
BigLeqFrom(a, b, i) ==
    IF i = 0 THEN TRUE
    ELSE IF a[i] # b[i] THEN a[i] < b[i]
    ELSE BigLeqFrom(a, b, i - 1)

BigLeq(a, b) ==
    IF Len(a) # Len(b) THEN Len(a) < Len(b) ELSE BigLeqFrom(a, b, Len(a))

RECURSIVE BigTrim(_)
BigTrim(a) ==
    IF a = <<>> THEN a
    ELSE IF a[Len(a)] = 0 THEN BigTrim(SubSeq(a, 1, Len(a) - 1))
    ELSE a

(* a - b for a >= b, before the leading zero limbs are dropped *)
RECURSIVE BigSubRaw(_, _, _)
BigSubRaw(a, b, borrow) ==
    IF a = <<>> THEN <<>>
    ELSE LET y == IF b = <<>> THEN 0 ELSE Head(b)
             t == Head(a) - y - borrow
         IN  <<IF t < 0 THEN t + Base ELSE t>>
             \o BigSubRaw(Tail(a), IF b = <<>> THEN b ELSE Tail(b),
                          IF t < 0 THEN 1 ELSE 0)

BigSub(a, b) == BigTrim(BigSubRaw(a, b, 0))

(* a mod m and a div m for a machine-word m with m * Base in the word,    *)
(* from limb i down with r the remainder carried from the limbs above.     *)
RECURSIVE BigModSmall(_, _, _, _)
BigModSmall(a, m, i, r) ==
    IF i = 0 THEN r ELSE BigModSmall(a, m, i - 1, (r * Base + a[i]) % m)

RECURSIVE BigDivFrom(_, _, _, _)
BigDivFrom(a, m, i, r) ==
    IF i = 0 THEN <<>>
    ELSE LET t == r * Base + a[i]
         IN  BigDivFrom(a, m, i - 1, t % m) \o <<t \div m>>

BigDivSmall(a, m) == BigTrim(BigDivFrom(a, m, Len(a), 0))

SBig(n) == <<n < 0, BigOf(Abs(n))>>

SNeg(x) == <<~ x[1] /\ x[2] # <<>>, x[2]>>

SAdd(x, y) ==
    IF x[1] = y[1] THEN <<x[1], BigAdd(x[2], y[2], 0)>>
    ELSE IF BigLeq(y[2], x[2])
         THEN LET d == BigSub(x[2], y[2]) IN <<x[1] /\ d # <<>>, d>>
         ELSE <<y[1], BigSub(y[2], x[2])>>

(* Binary64.  A positive double is <<m, e>> with the value m * 2^e and     *)
(* 2^52 <= m < 2^53, m a multi-word integer.  Round64 is the rounding of   *)
(* IEEE 754 (to nearest, ties to even) of the exact value x * 2^e,         *)
(* x >= 2^52; Add64 and Div64 are the float + and / of Python on positive  *)
(* doubles whose exponents differ by less than 2^4, and Double(n, d) is    *)
(* the double of the decimal literal n / d.                                *)
TwoTo52 == BigMul(BigOf(2^26), BigOf(2^26))

TwoTo53 == BigMulSmall(TwoTo52, 2, 0)

BigLess(a, b) == a # b /\ BigLeq(a, b)

(* The least s >= from with x < 2^(53 + s) *)
RECURSIVE Shift64(_, _)
Shift64(x, from) ==
    IF BigLess(x, BigMulSmall(TwoTo53, 2^from, 0)) THEN from
    ELSE Shift64(x, from + 1)

(* <<m, e>> with the significand that overflowed to 2^53 renormalised *)
Normal64(m, e) == IF m = TwoTo53 THEN <<TwoTo52, e + 1>> ELSE <<m, e>>

(* q + r / unit rounded to the nearest integer, ties to the even one *)
Nearest64(q, r, unit, e) ==
    Normal64(IF 2 * r > unit \/ (2 * r = unit /\ q[1] % 2 = 1)
             THEN BigAdd(q, <<1>>, 0) ELSE q, e)

(* x * 2^e rounded, s being the number of bits of x beyond the 53rd *)
Shifted64(x, e, s) ==
    Nearest64(BigDivSmall(x, 2^s), BigModSmall(x, 2^s, Len(x), 0), 2^s, e + s)

Round64(x, e) == Shifted64(x, e, Shift64(x, 0))

(* <<t * 2^k, k>> for the least k with t * 2^k >= bound *)
RECURSIVE Scale64(_, _, _)
Scale64(t, bound, k) ==
    IF BigLeq(bound, t) THEN <<t, k>>
    ELSE IF BigLess(BigMulSmall(t, 2^12, 0), bound)
         THEN Scale64(BigMulSmall(t, 2^12, 0), bound, k + 12)
         ELSE Scale64(BigMulSmall(t, 2, 0), bound, k + 1)

(* The double nearest to n * 2^e / d, for a multi-word n > 0 and a word    *)
(* d > 0: the quotient to 55 bits and a sticky bit, rounded.               *)
Sticky64(t, d) == IF BigModSmall(t, d, Len(t), 0) # 0 THEN <<1>> ELSE <<>>

Scaled64(scaled, d, e) ==
    Round64(BigAdd(BigMulSmall(BigDivSmall(scaled[1], d), 2, 0),
                   Sticky64(scaled[1], d), 0),
            e - scaled[2] - 1)

Quot64(n, d, e) == Scaled64(Scale64(n, BigMulSmall(TwoTo53, 2 * d, 0), 0), d, e)

Double(n, d) == Quot64(BigOf(n), d, 0)

(* hi + lo for hi[2] >= lo[2] *)
Aligned64(hi, lo) ==
    Round64(BigAdd(BigMulSmall(hi[1], 2^(hi[2] - lo[2]), 0), lo[1], 0), lo[2])

Add64(a, b) == IF a[2] >= b[2] THEN Aligned64(a, b) ELSE Aligned64(b, a)

Div64(a, n) == Quot64(a[1], n, a[2])

Less64(a, b) == IF a[2] # b[2] THEN a[2] < b[2] ELSE BigLess(a[1], b[1])

(* The largest v in lo..hi with (2v-1)^2 * d <= rhs (lo satisfies it).      *)
RECURSIVE SqrtSearch(_, _, _, _)
SqrtSearch(lo, hi, d, rhs) ==
    IF lo = hi THEN lo
    ELSE LET mid == (lo + hi + 1) \div 2
             odd == BigOf(2 * mid - 1)
         IN  IF BigLeq(BigMul(BigMul(odd, odd), d), rhs)
             THEN SqrtSearch(mid, hi, d, rhs)
             ELSE SqrtSearch(lo, mid - 1, d, rhs)

(* round(sqrt(x) * sqrt(y), k) for x = num / den >= 0 (num and den beyond  *)
(* the machine word) and an integer y > 0: v / 10^k, v the integer nearest *)
(* to 10^k * sqrt(x*y), i.e. the largest v with                             *)
(* (2v-1)^2 * den <= 4 * 10^(2k) * y * num.                                 *)
RoundSqrt(num, den, y, k) ==
    LET p   == BigOf(Pow10(k))
        rhs == BigMul(BigMul(BigMul(p, p), BigOf(4 * y)), num)
        v   == SqrtSearch(0, Pow10(k + 3), den, rhs)
    IN  R(v, Pow10(k))

---------------------------------------------------------------------------
(* src/stockwatch/indicators.py                                            *)
(* A price series is a sequence of numbers or NaN, oldest first; a volume  *)
(* series is a sequence of integers.  window, period and n are >= 1.       *)

(* sum(s): the left fold from 0, from index i on with acc the sum so far.  *)
(* Both branches of the inner test denote the same value; the test has TLC *)
(* evaluate next before it descends.                                       *)
RECURSIVE SumFrom(_, _, _)
SumFrom(s, i, acc) ==
    IF i > Len(s) THEN acc
    ELSE LET next == RAdd(acc, s[i])
         IN  IF next = acc THEN SumFrom(s, i + 1, acc)
             ELSE SumFrom(s, i + 1, next)

Sum(s) == SumFrom(s, 1, Zero)

(* list(s): the sequence with every element evaluated *)
list(s) == s \o <<>>

(* list(s)[-k:] for 1 <= k <= len(s) *)
LastN(s, k) == SubSeq(s, Len(s) - k + 1, Len(s))

(* Mutant of _validate: the minimum length excluded. *)
_validate_strict(series, min_len) ==
    /\ Len(series) > min_len
    /\ ~ \E i \in 1..Len(series) : isnan(series[i])

_validate(series, min_len) ==
    /\ Len(series) >= min_len
    /\ ~ \E i \in 1..Len(series) : isnan(series[i])

(* Mutant of moving_average: NaN looked for in the window only. *)
moving_average_window_nan(series, window) ==
    IF Len(series) < window THEN None
    ELSE LET tail == LastN(series, window)
         IN  IF \E i \in 1..window : isnan(tail[i]) THEN None
             ELSE RDiv(Sum(tail), Num(window))

moving_average(series, window) ==
    IF ~ _validate(series, window) THEN None
    ELSE LET tail == LastN(series, window)
         IN  RDiv(Sum(tail), Num(window))

(* sum(tail) in binary64: the doubles of s[i..j] added to acc from left to *)
(* right.  The range is halved so that the recursion is shallow: the       *)
(* additions and their order are those of the loop.  Both branches of the  *)
(* test of Sum64Rest denote the same value; the test has TLC evaluate      *)
(* left, the sum through s[mid], before it descends.                       *)
RECURSIVE Sum64From(_, _, _, _)
RECURSIVE Sum64Rest(_, _, _, _, _)
Sum64From(s, i, j, acc) ==
    IF i > j THEN acc
    ELSE IF i = j THEN Add64(acc, s[i])
    ELSE Sum64Rest(s, (i + j) \div 2, j, acc, Sum64From(s, i, (i + j) \div 2, acc))

Sum64Rest(s, mid, j, acc, left) ==
    IF left = acc THEN Sum64From(s, mid + 1, j, left)
    ELSE Sum64From(s, mid + 1, j, left)

(* The doubles of a series of decimal prices *)
Doubles(tail) == list([i \in 1..Len(tail) |-> Double(tail[i][1], tail[i][2])])

(* sum(tail) / window *)
Mean64(doubles) == Div64(Sum64From(doubles, 2, Len(doubles), doubles[1]), Len(doubles))

(* moving_average in binary64, for a series of positive decimal prices:    *)
(* the double that sum(tail) / window is.                                  *)
moving_average_binary64(series, window) ==
    IF ~ _validate(series, window) THEN None
    ELSE Mean64(Doubles(LastN(series, window)))

Deltas(series) == list([i \in 1..(Len(series) - 1) |-> RSub(series[i + 1], series[i])])

(* Mutant of Gain: a fall counted as a gain of its size. *)
Gain_magnitude(delta) == <<Abs(delta[1]), delta[2]>>

Gain(delta) == RMax(delta, Zero)
Loss(delta) == LET m == RMin(delta, Zero) IN <<Abs(m[1]), m[2]>>

(* Mutant of WilderStep: the previous average not weighted by period - 1. *)
WilderStep_unweighted(avg, delta, period) ==
    <<RDiv(RAdd(avg[1], Gain(delta)), Num(period)),
      RDiv(RAdd(avg[2], Loss(delta)), Num(period))>>

(* One pass of the smoothing loop: avg is <<avg_gain, avg_loss>>. *)
WilderStep(avg, delta, period) ==
    <<RDiv(RAdd(RMul(avg[1], Num(period - 1)), Gain(delta)), Num(period)),
      RDiv(RAdd(RMul(avg[2], Num(period - 1)), Loss(delta)), Num(period))>>

(* The loop over deltas[period:], from index i on.  Both branches of the   *)
(* inner test denote the same value; the test has TLC evaluate next before *)
(* it descends, which keeps the evaluation stack shallow.                  *)
RECURSIVE WilderSmooth(_, _, _, _)
WilderSmooth(avg, deltas, i, period) ==
    IF i > Len(deltas) THEN avg
    ELSE LET next == WilderStep(avg, deltas[i], period)
         IN  IF next = avg THEN WilderSmooth(avg, deltas, i + 1, period)
             ELSE WilderSmooth(next, deltas, i + 1, period)

rsi(series, period) ==
    IF ~ _validate(series, period + 1) THEN None
    ELSE LET deltas == Deltas(series)
             first  == SubSeq(deltas, 1, period)
             gains  == [i \in 1..period |-> Gain(first[i])]
             losses == [i \in 1..period |-> Loss(first[i])]
             seed   == <<RDiv(Sum(gains), Num(period)), RDiv(Sum(losses), Num(period))>>
             avg    == WilderSmooth(seed, deltas, period + 1, period)
         IN  IF avg[2] = Zero THEN Num(100)
             ELSE LET rs == RDiv(avg[1], avg[2])
                  IN  Round(RSub(Num(100), RDiv(Num(100), RAdd(Num(1), rs))), 4)

(* Mutant of period_return: the base price taken one day too late. *)
period_return_late_base(series, n) ==
    IF ~ _validate(series, n + 1) THEN None
    ELSE LET p_now  == series[Len(series)]
             p_prev == series[Len(series) - n + 1]
         IN  IF p_prev = Zero THEN None
             ELSE RSub(RDiv(p_now, p_prev), Num(1))

period_return(series, n) ==
    IF ~ _validate(series, n + 1) THEN None
    ELSE LET p_now  == series[Len(series)]
             p_prev == series[Len(series) - n]
         IN  IF p_prev = Zero THEN None
             ELSE RSub(RDiv(p_now, p_prev), Num(1))

DAYS_PER_YEAR == 252

(* The daily returns brought to one denominator, the least common         *)
(* multiple of their denominators: CommonFrom folds it from index j on     *)
(* with acc the multiple so far (the inner test has TLC evaluate next      *)
(* before descending), and Scaled(rs, D, i) is the signed numerator of     *)
(* rs[i] over D.                                                           *)
RECURSIVE CommonFrom(_, _, _)
CommonFrom(rs, j, acc) ==
    IF j > Len(rs) THEN acc
    ELSE LET d    == rs[j][2]
             g    == GCD(d, BigModSmall(acc, d, Len(acc), 0))
             next == IF d = g THEN acc ELSE BigMul(acc, BigOf(d \div g))
         IN  IF next = acc THEN CommonFrom(rs, j + 1, acc)
             ELSE CommonFrom(rs, j + 1, next)

Common(rs) == CommonFrom(rs, 1, <<1>>)

Scaled(rs, D, i) ==
    IF rs[i][1] = 0 THEN SBig(0)
    ELSE <<rs[i][1] < 0, BigMul(BigDivSmall(D, rs[i][2]), BigOf(Abs(rs[i][1])))>>

RECURSIVE SSumFrom(_, _, _)
SSumFrom(xs, i, acc) ==
    IF i > Len(xs) THEN acc
    ELSE LET next == SAdd(acc, xs[i])
         IN  IF next = acc THEN SSumFrom(xs, i + 1, acc)
             ELSE SSumFrom(xs, i + 1, next)

(* daily_returns -> mean -> squared deviations -> variance -> annualised   *)
(* standard deviation, with the returns over the denominator D:            *)
(*   mean = total / (n * D),  r - mean = (n * num - total) / (n * D),      *)
(*   variance = SUM (n * num - total)^2 / (n * (n * D)^2).                 *)
volatility(series, period) ==
    IF ~ _validate(series, period + 1) THEN None
    ELSE LET tail == LastN(series, period + 1)
         IN  IF \E i \in 1..period : tail[i] = Zero
             THEN ZeroDivisionError      \* tail[i] / tail[i - 1] with a 0.0 divisor
             ELSE LET daily_returns ==
                          list([i \in 1..period |-> RSub(RDiv(tail[i + 1], tail[i]), Num(1))])
                      n     == Len(daily_returns)
                      D     == Common(daily_returns)
                      nums  == list([i \in 1..n |-> Scaled(daily_returns, D, i)])
                      total == SSumFrom(nums, 1, SBig(0))
                      sq    == list([i \in 1..n |->
                                   LET dev == SAdd(<<nums[i][1], BigMul(nums[i][2], BigOf(n))>>,
                                                   SNeg(total))
                                   IN  <<FALSE, BigMul(dev[2], dev[2])>>])
                      nD    == BigMul(BigOf(n), D)
                  IN  RoundSqrt(SSumFrom(sq, 1, SBig(0))[2],
                                BigMul(BigOf(n), BigMul(nD, nD)),
                                DAYS_PER_YEAR, 6)

RECURSIVE IntSumFrom(_, _, _)
IntSumFrom(s, i, acc) ==
    IF i > Len(s) THEN acc
    ELSE LET next == acc + s[i]
         IN  IF next = acc THEN IntSumFrom(s, i + 1, acc)
             ELSE IntSumFrom(s, i + 1, next)

IntSum(s) == IntSumFrom(s, 1, 0)

(* Mutant of volume_anomaly: a last volume equal to the threshold is not   *)
(* an anomaly.                                                             *)
volume_anomaly_exclusive(vols, multiplier, window) ==
    IF Len(vols) < window + 1 THEN FALSE
    ELSE LET avg_vol == RDiv(Num(IntSum(SubSeq(vols, Len(vols) - window, Len(vols) - 1))),
                             Num(window))
         IN  IF avg_vol = Zero THEN FALSE
             ELSE RGt(Num(vols[Len(vols)]), RMul(multiplier, avg_vol))

volume_anomaly(vols, multiplier, window) ==
    IF Len(vols) < window + 1 THEN FALSE
    ELSE LET avg_vol == RDiv(Num(IntSum(SubSeq(vols, Len(vols) - window, Len(vols) - 1))),
                             Num(window))
         IN  IF avg_vol = Zero THEN FALSE
             ELSE RGe(Num(vols[Len(vols)]), RMul(multiplier, avg_vol))

---------------------------------------------------------------------------
(* src/stockwatch/trend.py                                                 *)

UPTREND == "Uptrend"
DOWNTREND == "Downtrend"
SIDEWAYS == "Sideways"

_UPTREND_MIN == 62
_DOWNTREND_MAX == 38

(* Mutant of _ma_score: the transitional cases exclude ma20 = ma50. *)
_ma_score_strict(price, ma20, ma50) ==
    IF IsNone(ma20) /\ IsNone(ma50) THEN Num(50)
    ELSE IF IsNone(ma20) \/ IsNone(ma50)
    THEN LET ma == IF ~ IsNone(ma20) THEN ma20 ELSE ma50
         IN  IF RGt(price, ma) THEN Num(70) ELSE Num(30)
    ELSE IF RGt(price, ma20) /\ RGt(ma20, ma50) THEN Num(90)
    ELSE IF RLt(price, ma20) /\ RLt(ma20, ma50) THEN Num(10)
    ELSE IF RGt(price, ma20) /\ RLt(ma20, ma50) THEN Num(60)
    ELSE IF RLt(price, ma20) /\ RGt(ma20, ma50) THEN Num(40)
    ELSE Num(50)

_ma_score(price, ma20, ma50) ==
    IF IsNone(ma20) /\ IsNone(ma50) THEN Num(50)
    ELSE IF IsNone(ma20) \/ IsNone(ma50)
    THEN LET ma == IF ~ IsNone(ma20) THEN ma20 ELSE ma50
         IN  IF RGt(price, ma) THEN Num(70) ELSE Num(30)
    ELSE IF RGt(price, ma20) /\ RGt(ma20, ma50) THEN Num(90)
    ELSE IF RLt(price, ma20) /\ RLt(ma20, ma50) THEN Num(10)
    ELSE IF RGt(price, ma20) /\ RLe(ma20, ma50) THEN Num(60)
    ELSE IF RLt(price, ma20) /\ RGe(ma20, ma50) THEN Num(40)
    ELSE Num(50)

(* Mutant of _momentum_score: the return taken in percent, slope 3.5. *)
_momentum_score_percent(return_20d) ==
    IF IsNone(return_20d) THEN Num(50)
    ELSE LET raw == RAdd(Num(50), RMul(return_20d, R(35, 10)))
         IN  RMax(Zero, RMin(Num(100), raw))

(* Mutant of _momentum_score: a missing return scored 0, not neutral. *)
_momentum_score_penalised(return_20d) ==
    IF IsNone(return_20d) THEN Zero
    ELSE LET raw == RAdd(Num(50), RMul(return_20d, Num(350)))
         IN  RMax(Zero, RMin(Num(100), raw))

_momentum_score(return_20d) ==
    IF IsNone(return_20d) THEN Num(50)
    ELSE LET raw == RAdd(Num(50), RMul(return_20d, Num(350)))
         IN  RMax(Zero, RMin(Num(100), raw))

(* Mutant of _volatility_score: a falsy test, 0.0 taken for unavailable. *)
_volatility_score_falsy(vol) ==
    IF IsNone(vol) \/ vol = Zero THEN Num(50)
    ELSE IF RLt(vol, R(15, 100)) THEN Num(70)
    ELSE IF RLt(vol, R(25, 100)) THEN Num(55)
    ELSE IF RLt(vol, R(40, 100)) THEN Num(40)
    ELSE Num(25)

(* Mutant of _volatility_score: a calm series scores 85. *)
_volatility_score_generous(vol) ==
    IF IsNone(vol) THEN Num(50)
    ELSE IF RLt(vol, R(15, 100)) THEN Num(85)
    ELSE IF RLt(vol, R(25, 100)) THEN Num(55)
    ELSE IF RLt(vol, R(40, 100)) THEN Num(40)
    ELSE Num(25)

_volatility_score(vol) ==
    IF IsNone(vol) THEN Num(50)
    ELSE IF RLt(vol, R(15, 100)) THEN Num(70)
    ELSE IF RLt(vol, R(25, 100)) THEN Num(55)
    ELSE IF RLt(vol, R(40, 100)) THEN Num(40)
    ELSE Num(25)

(* Mutant of WeightedSum: the MA and RSI weights exchanged. *)
WeightedSum_swapped(ma_s, rsi_s, mom_s, vol_s) ==
    RAdd(RAdd(RAdd(RMul(R(25, 100), ma_s), RMul(R(30, 100), rsi_s)),
              RMul(R(30, 100), mom_s)),
         RMul(R(15, 100), vol_s))

(* composite = 0.30*ma_s + 0.25*rsi_s + 0.30*mom_s + 0.15*vol_s *)
WeightedSum(ma_s, rsi_s, mom_s, vol_s) ==
    RAdd(RAdd(RAdd(RMul(R(30, 100), ma_s), RMul(R(25, 100), rsi_s)),
              RMul(R(30, 100), mom_s)),
         RMul(R(15, 100), vol_s))

(* Mutants of Clamp: the upper bound at 50, and the lower bound at 50. *)
Clamp_low(x) == RMax(Zero, RMin(Num(50), x))

Clamp_high(x) == RMax(Num(50), RMin(Num(100), x))

Clamp(x) == RMax(Zero, RMin(Num(100), x))

(* Mutant of Strength: the composite cut, not rounded, to one decimal. *)
Strength_truncated(composite) == R((10 * composite[1]) \div composite[2], 10)

Strength(composite) == Round(composite, 1)

(* Mutant of Label: the label decided by the rounded strength. *)
Label_rounded(composite, uptrend_min, downtrend_max) ==
    IF RGe(Round(composite, 1), uptrend_min) THEN UPTREND
    ELSE IF RLe(Round(composite, 1), downtrend_max) THEN DOWNTREND
    ELSE SIDEWAYS

Label(composite, uptrend_min, downtrend_max) ==
    IF RGe(composite, uptrend_min) THEN UPTREND
    ELSE IF RLe(composite, downtrend_max) THEN DOWNTREND
    ELSE SIDEWAYS

(* The value of a call of classify that raised exc: no TrendResult exists. *)
Raised(exc) ==
    [exc |-> exc, label |-> "", strength |-> None, ma20 |-> None, ma50 |-> None,
     rsi14 |-> None, return_1d |-> None, return_5d |-> None, return_20d |-> None,
     volatility_20d |-> None, volume_anomaly |-> FALSE, composite |-> None]

NoException == "-"

(* classify from the indicators on: the sub-scores, the composite, the     *)
(* label and the TrendResult.                                              *)
Scored(price, ma20, ma50, rsi14, ret_1d, ret_5d, ret_20d, vol_20d, vol_anom, uptrend_min, downtrend_max) ==
    LET ma_s     == _ma_score(price, ma20, ma50)
        rsi_s    == IF ~ IsNone(rsi14) THEN rsi14 ELSE Num(50)
        mom_s    == _momentum_score(ret_20d)
        vol_s    == _volatility_score(vol_20d)
        composite == Clamp(WeightedSum(ma_s, rsi_s, mom_s, vol_s))
    IN  [exc |-> NoException,
         label |-> Label(composite, uptrend_min, downtrend_max),
         strength |-> Strength(composite),
         ma20 |-> ma20, ma50 |-> ma50, rsi14 |-> rsi14,
         return_1d |-> ret_1d, return_5d |-> ret_5d, return_20d |-> ret_20d,
         volatility_20d |-> vol_20d, volume_anomaly |-> vol_anom,
         composite |-> composite]

classify(series, vols, uptrend_min, downtrend_max, volume_anomaly_multiplier) ==
    LET price    == IF series # <<>> THEN series[Len(series)] ELSE Zero
        vol_20d  == volatility(series, 20)
    IN  IF vol_20d = ZeroDivisionError THEN Raised("ZeroDivisionError")
        ELSE Scored(price, moving_average(series, 20), moving_average(series, 50),
                    rsi(series, 14), period_return(series, 1),
                    period_return(series, 5), period_return(series, 20), vol_20d,
                    volume_anomaly(vols, volume_anomaly_multiplier, 20),
                    uptrend_min, downtrend_max)

(* The number of the doubles a, b, c that are less than x *)
Rank64(x, a, b, c) == Num(Cardinality({y \in {a, b, c} : Less64(y, x)}))

(* classify in binary64 from the indicators on, ind being price, ma20,     *)
(* ma50, rsi14, the three returns, the volatility and the volume anomaly.  *)
(* _ma_score compares price, ma20 and ma50 with one another only, so it is *)
(* handed their ranks among the three doubles; the TrendResult holds the   *)
(* doubles.  ind is never empty: the test has TLC evaluate the indicators  *)
(* before it descends.                                                     *)
Scored64(ind, uptrend_min, downtrend_max) ==
    IF Len(ind) = 0 THEN Raised(NoException)
    ELSE [Scored(Rank64(ind[1], ind[1], ind[2], ind[3]),
                 Rank64(ind[2], ind[1], ind[2], ind[3]),
                 Rank64(ind[3], ind[1], ind[2], ind[3]),
                 ind[4], ind[5], ind[6], ind[7], ind[8], ind[9],
                 uptrend_min, downtrend_max)
             EXCEPT !.ma20 = ind[2], !.ma50 = ind[3]]

(* classify in binary64 for a series of at least 50 positive decimal       *)
(* prices (both moving averages exist) on which the other indicators are   *)
(* exact (a constant series: x - x is 0.0 and x / x is 1.0).               *)
classify_binary64(series, vols, uptrend_min, downtrend_max, volume_anomaly_multiplier) ==
    Scored64(<<Double(series[Len(series)][1], series[Len(series)][2]),
               moving_average_binary64(series, 20),
               moving_average_binary64(series, 50),
               rsi(series, 14), period_return(series, 1), period_return(series, 5),
               period_return(series, 20), volatility(series, 20),
               volume_anomaly(vols, volume_anomaly_multiplier, 20)>>,
             uptrend_min, downtrend_max)

---------------------------------------------------------------------------
(* The SQLite database (storage/db.py, storage/repository.py).  A          *)
(* connection is a record of tables, each table a set of rows; a date is a *)
(* day number and NoDate stands for None.  sqlite_sequence holds the last  *)
(* AUTOINCREMENT id of each table.  A repository function gives the        *)
(* connection after the call, the value returned and the exception raised: *)
(* a statement that violates a constraint changes nothing.                 *)

IntegrityError == "IntegrityError"
TweepyException == "TweepyException"
ClientError == "ClientError"

NoDate == -1

init_db ==
    [prices |-> {}, indicators |-> {}, reports |-> {}, email_logs |-> {},
     tweet_logs |-> {},
     sqlite_sequence |-> [reports |-> 0, email_logs |-> 0, tweet_logs |-> 0]]

Done(db, value) == [conn |-> db, value |-> value, raised |-> NoException]

Failed(db, exc) == [conn |-> db, value |-> 0, raised |-> exc]

SameKey(p, r) == p.ticker = r.ticker /\ p.date = r.date

(* ON CONFLICT(ticker, date) DO UPDATE SET close, adj_close, volume: the   *)
(* stored open (and high, low, which the model folds into open) stays.     *)
upsert_prices(db, rows) ==
    LET kept == {p \in db.prices : \A r \in rows : ~ SameKey(p, r)}
        Stored(r) ==
            IF \E p \in db.prices : SameKey(p, r)
            THEN [(CHOOSE p \in db.prices : SameKey(p, r))
                    EXCEPT !.close = r.close, !.adj_close = r.adj_close,
                           !.volume = r.volume]
            ELSE r
    IN  IF rows = {} THEN Done(db, 0)
        ELSE Done([db EXCEPT !.prices = kept \cup {Stored(r) : r \in rows}],
                  Cardinality(rows))

MaxOf(S) == CHOOSE m \in S : \A n \in S : n <= m

MinOf(S) == CHOOSE m \in S : \A n \in S : m <= n

get_max_price_date(db, ticker) ==
    LET dates == {p.date : p \in {q \in db.prices : q.ticker = ticker}}
    IN  IF dates = {} THEN NoDate ELSE MaxOf(dates)

(* ORDER BY date ASC *)
RECURSIVE OrderByDate(_)
OrderByDate(rows) ==
    IF rows = {} THEN <<>>
    ELSE LET first == CHOOSE r \in rows : r.date = MinOf({q.date : q \in rows})
         IN  <<first>> \o OrderByDate(rows \ {first})

(* SELECT date, adj_close, volume ... ORDER BY date ASC LIMIT ? *)
get_adj_close_series(db, ticker, limit) ==
    LET ordered == OrderByDate({p \in db.prices : p.ticker = ticker})
    IN  list([i \in 1..(IF Len(ordered) < limit THEN Len(ordered) ELSE limit) |->
                <<ordered[i].date, ordered[i].adj_close, ordered[i].volume>>])

(* indicators: UNIQUE(ticker, date) with ON CONFLICT DO UPDATE, and        *)
(* FOREIGN KEY (ticker, date) REFERENCES prices(ticker, date).             *)
upsert_indicator(db, record) ==
    IF ~ \E p \in db.prices : SameKey(p, record) THEN Failed(db, IntegrityError)
    ELSE Done([db EXCEPT !.indicators =
                   {r \in @ : ~ SameKey(r, record)} \cup {record}], 0)

get_indicators_for_date(db, run_date) ==
    {r \in db.indicators : r.date = run_date}

(* Mutant of insert_report: a plain INSERT into a table without the        *)
(* UNIQUE constraint on run_date.                                          *)
insert_report_appending(db, record) ==
    LET id == db.sqlite_sequence.reports + 1
    IN  Done([db EXCEPT !.reports = @ \cup {[record EXCEPT !.id = id]},
                        !.sqlite_sequence.reports = id], id)

(* INSERT OR REPLACE INTO reports: the row holding the run_date is deleted *)
(* and a row with a fresh id inserted; the statement fails when a log row  *)
(* still references the deleted id (PRAGMA foreign_keys=ON).               *)
insert_report(db, record) ==
    LET old == {r \in db.reports : r.run_date = record.run_date}
        referenced ==
            \E r \in old : \/ \E l \in db.email_logs : l.report_id = r.id
                           \/ \E l \in db.tweet_logs : l.report_id = r.id
        id == db.sqlite_sequence.reports + 1
    IN  IF referenced THEN Failed(db, IntegrityError)
        ELSE Done([db EXCEPT !.reports = (@ \ old) \cup {[record EXCEPT !.id = id]},
                             !.sqlite_sequence.reports = id], id)

insert_email_log(db, record) ==
    LET id == db.sqlite_sequence.email_logs + 1
    IN  IF ~ \E r \in db.reports : r.id = record.report_id
        THEN Failed(db, IntegrityError)
        ELSE Done([db EXCEPT !.email_logs = @ \cup {[record EXCEPT !.id = id]},
                             !.sqlite_sequence.email_logs = id], id)

(* ... WHERE run_date = ? AND status = 'posted' *)
has_tweet_for_date(db, run_date) ==
    \E t \in db.tweet_logs : t.run_date = run_date /\ t.status = "posted"

(* A plain INSERT into tweet_logs, whose run_date is UNIQUE and whose      *)
(* report_id references reports(id).                                       *)
insert_tweet_log(db, record) ==
    LET id == db.sqlite_sequence.tweet_logs + 1
    IN  IF \/ \E t \in db.tweet_logs : t.run_date = record.run_date
           \/ ~ \E r \in db.reports : r.id = record.report_id
        THEN Failed(db, IntegrityError)
        ELSE Done([db EXCEPT !.tweet_logs = @ \cup {[record EXCEPT !.id = id]},
                             !.sqlite_sequence.tweet_logs = id], id)

---------------------------------------------------------------------------
(* Delivery (delivery/x_poster.py, delivery/email_sender.py,               *)
(* delivery/file_writer.py).  posted counts, per run_date, the calls of    *)
(* create_tweet that succeeded; create_tweet and send_email are the        *)
(* outcomes of the calls to X and to SES: "ok" or the exception thrown.    *)

NoTweetId == 0

post_digest_tweet(db, posted, run_date, report_id, dry_run, create_tweet) ==
    LET log_record == [id |-> 0, report_id |-> report_id, run_date |-> run_date,
                       tweet_id |-> NoTweetId, status |-> "dry_run",
                       error_message |-> ""]
        Logged(record, tl) ==
            LET stored == insert_tweet_log(db, record)
            IN  [conn |-> stored.conn, timeline |-> tl, raised |-> stored.raised,
                 skipped |-> FALSE]
    IN  IF has_tweet_for_date(db, run_date)
        THEN [conn |-> db, timeline |-> posted, raised |-> NoException,
              skipped |-> TRUE]
        ELSE IF dry_run THEN Logged(log_record, posted)
        ELSE IF create_tweet = "ok"
        THEN LET tl == [posted EXCEPT ![run_date] = @ + 1]
             IN  Logged([log_record EXCEPT !.tweet_id = tl[run_date],
                                           !.status = "posted"], tl)
        ELSE Logged([log_record EXCEPT !.status = "failed",
                                       !.error_message = create_tweet], posted)

send_digest_email(db, report_id, dry_run, send_email) ==
    LET log_record == [id |-> 0, report_id |-> report_id, status |-> "dry_run",
                       error_message |-> ""]
    IN  IF dry_run THEN insert_email_log(db, log_record)
        ELSE IF send_email = "ok"
        THEN insert_email_log(db, [log_record EXCEPT !.status = "sent"])
        ELSE insert_email_log(db, [log_record EXCEPT !.status = "failed",
                                                     !.error_message = send_email])

(* The JSON and Markdown files of a run_date, written over older ones. *)
write_artifacts(dir, digest) == dir \cup {digest.run_date}

---------------------------------------------------------------------------
(* The pipeline (orchestrator.py, digest.py, providers/base.py,            *)
(* utils/retry.py).                                                        *)

MaxDay == 3

Days == 1..MaxDay

(* The market calendar: day 2 is a holiday. *)
TradingDays == Days \ {2}

tickers == <<"AAA", "BBB">>

MAX_ATTEMPTS == 3

SERIES_LIMIT == 300

(* Mutant of _is_market_open: a calendar without holidays. *)
_is_market_open_every_day(run_date) == run_date \in Days

_is_market_open(run_date) == run_date \in TradingDays

(* What the provider holds for a ticker and a trading day. *)
OHLCV(ticker, d) ==
    LET close == IF ticker = tickers[1] THEN Num(100 + d) ELSE Num(50 - d)
    IN  [ticker |-> ticker, date |-> d, open |-> close, close |-> close,
         adj_close |-> close, volume |-> 1000]

fetch_ohlcv(ticker, start, end) ==
    {OHLCV(ticker, d) : d \in (start..end) \cap TradingDays}

(* No call of provider.fetch_ohlcv. *)
NoRequest == <<>>

(* failures is the number of times fetch_ohlcv raises ProviderError before *)
(* it answers; the retry decorator stops after MAX_ATTEMPTS calls.         *)
(* requested is the range <<start, end>> the provider was asked for and    *)
(* attempts the number of calls made.                                      *)
(* Mutant of _fetch_range_for_ticker: the backfill window is requested on  *)
(* every call, whatever is stored.                                         *)
_fetch_range_for_ticker_refetching(db, ticker, now, backfill_days, failures) ==
    LET start == now - backfill_days
    IN  IF failures >= MAX_ATTEMPTS
        THEN [conn |-> db, value |-> 0, attempts |-> MAX_ATTEMPTS,
              requested |-> <<start, now>>]
        ELSE LET stored == upsert_prices(db, fetch_ohlcv(ticker, start, now))
             IN  [conn |-> stored.conn, value |-> stored.value,
                  attempts |-> failures + 1, requested |-> <<start, now>>]

_fetch_range_for_ticker(db, ticker, now, backfill_days, failures) ==
    LET max_date == get_max_price_date(db, ticker)
        start == IF max_date = NoDate THEN now - backfill_days ELSE max_date + 1
    IN  IF start > now
        THEN [conn |-> db, value |-> 0, attempts |-> 0, requested |-> NoRequest]
        ELSE IF failures >= MAX_ATTEMPTS
        THEN [conn |-> db, value |-> 0, attempts |-> MAX_ATTEMPTS,
              requested |-> <<start, now>>]
        ELSE LET stored == upsert_prices(db, fetch_ohlcv(ticker, start, now))
             IN  [conn |-> stored.conn, value |-> stored.value,
                  attempts |-> failures + 1, requested |-> <<start, now>>]

(* The indicators row of a ticker, from the result of classify. *)
IndicatorRecord(ticker, run_date, res) ==
    [ticker |-> ticker, date |-> run_date, ma20 |-> res.ma20,
     ma50 |-> res.ma50, rsi14 |-> res.rsi14,
     return_1d |-> res.return_1d, return_5d |-> res.return_5d,
     return_20d |-> res.return_20d,
     volatility_20d |-> res.volatility_20d,
     volume_anomaly |-> res.volume_anomaly, trend |-> res.label,
     trend_strength |-> res.strength]

(* upsert_indicator(conn, IndicatorRecord(...)) and return True, unless    *)
(* classify raised.                                                        *)
StoreIndicators(db, ticker, run_date, res) ==
    IF res.exc # NoException
    THEN [conn |-> db, value |-> FALSE, raised |-> res.exc]
    ELSE LET stored == upsert_indicator(db, IndicatorRecord(ticker, run_date, res))
         IN  [conn |-> stored.conn, value |-> stored.raised = NoException,
              raised |-> stored.raised]

_compute_indicators_for_ticker(db, ticker, run_date) ==
    LET series == get_adj_close_series(db, ticker, SERIES_LIMIT)
        closes == list([i \in 1..Len(series) |-> series[i][2]])
        vols == list([i \in 1..Len(series) |-> series[i][3]])
    IN  IF Len(series) = 0 THEN [conn |-> db, value |-> FALSE, raised |-> NoException]
        ELSE StoreIndicators(db, ticker, run_date,
                 classify(closes, vols, Num(_UPTREND_MIN), Num(_DOWNTREND_MAX), Num(2)))

(* for ticker in config.tickers: _fetch_range_for_ticker(...) *)
RECURSIVE FetchAll(_, _, _, _, _, _, _)
FetchAll(db, i, now, backfill_days, failures, attempts, requested) ==
    IF i > Len(tickers)
    THEN [conn |-> db, attempts |-> attempts, requested |-> requested]
    ELSE LET f == _fetch_range_for_ticker(db, tickers[i], now, backfill_days, failures[i])
         IN  FetchAll(f.conn, i + 1, now, backfill_days, failures,
                      Append(attempts, f.attempts), Append(requested, f.requested))

(* for ticker in config.tickers: _compute_indicators_for_ticker(...)       *)
(* ComputeNext goes on after the i-th ticker, whose call ended as c.       *)
RECURSIVE ComputeAll(_, _, _)
RECURSIVE ComputeNext(_, _, _)
ComputeNext(c, i, run_date) ==
    IF c.raised # NoException THEN [conn |-> c.conn, raised |-> c.raised]
    ELSE ComputeAll(c.conn, i + 1, run_date)

ComputeAll(db, i, run_date) ==
    IF i > Len(tickers) THEN [conn |-> db, raised |-> NoException]
    ELSE ComputeNext(_compute_indicators_for_ticker(db, tickers[i], run_date),
                     i, run_date)

(* DigestData(run_date, indicators).build() *)
build(run_date, indicators) ==
    [run_date |-> run_date,
     total |-> Cardinality(indicators),
     uptrend_count |-> Cardinality({r \in indicators : r.trend = UPTREND}),
     downtrend_count |-> Cardinality({r \in indicators : r.trend = DOWNTREND}),
     sideways_count |-> Cardinality({r \in indicators : r.trend = SIDEWAYS})]

NoAttempts == [i \in 1..Len(tickers) |-> 0]

NoRequests == [i \in 1..Len(tickers) |-> NoRequest]

(* A run that did not reach the fetch loop. *)
NoFetch == [attempts |-> NoAttempts, requested |-> NoRequests]

(* The state a call of run_daily_pipeline leaves and how it ended. *)
Ended(db, dir, posted, exc, fetched, report_id, skipped) ==
    [conn |-> db, reports_dir |-> dir, timeline |-> posted, raised |-> exc,
     attempts |-> fetched.attempts, requested |-> fetched.requested,
     report_id |-> report_id, skipped |-> skipped]

(* run_daily_pipeline after its compute loop, which ended as computed:    *)
(* the digest, the files, the report and the deliveries.                   *)
DigestAndDeliver(computed, fetched, dir, posted, run_date, cfg, env) ==
    LET digest == build(run_date, get_indicators_for_date(computed.conn, run_date))
        written == write_artifacts(dir, digest)
        report_record == [id |-> 0, run_date |-> run_date,
                          ticker_count |-> digest.total,
                          uptrend_count |-> digest.uptrend_count,
                          downtrend_count |-> digest.downtrend_count,
                          sideways_count |-> digest.sideways_count]
        stored == insert_report(computed.conn, report_record)
        mailed == IF cfg.enable_email
                  THEN send_digest_email(stored.conn, stored.value, cfg.dry_run,
                                         env.send_email)
                  ELSE Done(stored.conn, 0)
        tweeted == IF cfg.enable_twitter
                   THEN post_digest_tweet(mailed.conn, posted, run_date, stored.value,
                                          cfg.dry_run, env.create_tweet)
                   ELSE [conn |-> mailed.conn, timeline |-> posted,
                         raised |-> NoException, skipped |-> FALSE]
    IN  IF computed.raised # NoException
        THEN Ended(computed.conn, dir, posted, computed.raised, fetched, 0, FALSE)
        ELSE IF stored.raised # NoException
        THEN Ended(stored.conn, written, posted, stored.raised, fetched, 0, FALSE)
        ELSE IF mailed.raised # NoException
        THEN Ended(mailed.conn, written, posted, mailed.raised, fetched,
                   stored.value, FALSE)
        ELSE Ended(tweeted.conn, written, tweeted.timeline, tweeted.raised,
                   fetched, stored.value, FALSE)

run_daily_pipeline(db, dir, posted, now, run_date, cfg, failures, env) ==
    IF ~ _is_market_open(run_date)
    THEN Ended(db, dir, posted, NoException, NoFetch, 0, TRUE)
    ELSE LET fetched == FetchAll(db, 1, now, cfg.backfill_days, failures, <<>>, <<>>)
         IN  DigestAndDeliver(ComputeAll(fetched.conn, 1, run_date), fetched,
                              dir, posted, run_date, cfg, env)

BackfillDays == {1}

Configs ==
    [enable_email : BOOLEAN, enable_twitter : BOOLEAN, dry_run : BOOLEAN,
     backfill_days : BackfillDays]

(* Providers that answer at once, after one failure, or never, for the     *)
(* first ticker, for the second and for both.                              *)
Providers ==
    {<<0, 0>>, <<1, 0>>, <<MAX_ATTEMPTS, 0>>, <<0, MAX_ATTEMPTS>>,
     <<MAX_ATTEMPTS, MAX_ATTEMPTS>>}

Envs == [send_email : {"ok", ClientError}, create_tweet : {"ok", TweepyException}]

(* Before the first run: an empty database, no files, and no tweets. *)
NoRun ==
    [op |-> "", today |-> NoDate, run_date |-> NoDate, raised |-> NoException,
     skipped |-> FALSE, attempts |-> NoAttempts, requested |-> NoRequests]

Installed ==
    /\ today = 1
    /\ conn = init_db
    /\ reports_dir = {}
    /\ timeline = [d \in Days |-> 0]
    /\ run = NoRun

(* No pipeline is configured: the functions are called on their own. *)
Standalone ==
    /\ config = [enable_email |-> FALSE, enable_twitter |-> FALSE, dry_run |-> FALSE,
                 backfill_days |-> 1]
    /\ provider = NoAttempts

world == <<today, conn, reports_dir, timeline, config, provider, run>>

---------------------------------------------------------------------------
(* Inputs.  A price series is a flat run of BasePrice followed by a short   *)
(* arbitrary tail (zero and NaN included), cut to a length around each     *)
(* indicator's minimum; every series of at most MaxTail values is among    *)
(* them.  The volume series has the length of the price series.  The       *)
(* sub-score helpers take scalars.                                         *)

MaxTail == 2

Prices == {Zero, Num(16), Num(17), Num(32), NaN}

Lens == {0, 1, 2, 5, 6, 14, 15, 19, 20, 21, 30, 49, 50, 51}

Flat(v, n) == [i \in 1..n |-> v]

Tails == UNION {[1..k -> Prices] : k \in 0..MaxTail}

BasePrice == Num(16)

PriceInputs ==
    {Flat(BasePrice, x[1] - Len(x[2])) \o x[2] :
        x \in {y \in Lens \X Tails : Len(y[2]) <= y[1]}}

SpikeInputs == {Flat(BasePrice, n) : n \in Lens \ {0}}

(* Strictly monotone series of positive prices.  Climb(first, steps) rises *)
(* from first by the given steps and Reverse turns it into a falling one.  *)
(* The short ones take every sequence of at most MaxTail + 1 steps; the    *)
(* long ones are ramps of one step whose last move is longer by a bump.    *)
RECURSIVE Climb(_, _)
Climb(first, steps) ==
    IF steps = <<>> THEN <<Num(first)>>
    ELSE <<Num(first)>> \o Climb(first + Head(steps), Tail(steps))

Reverse(s) == [i \in 1..Len(s) |-> s[Len(s) + 1 - i]]

Steps == {1, 2, 4}

TrendLens == {15, 16, 21, 50, 60}

Firsts == {1, 7, 1000}

Bumps == {0, 5}

ShortClimbs ==
    {Climb(1, st) : st \in UNION {[1..k -> Steps] : k \in 1..(MaxTail + 1)}}

LongSteps == TrendLens \X Firsts \X (Steps \ {4}) \X Bumps

LongClimbs ==
    {Climb(x[2], Flat(x[3], x[1] - 2) \o <<x[3] + x[4]>>) : x \in LongSteps}

LongFalls ==
    {Reverse(Climb(x[2], <<x[3] + x[4]>> \o Flat(x[3], x[1] - 2))) : x \in LongSteps}

TrendInputs ==
    ShortClimbs \cup {Reverse(s) : s \in ShortClimbs} \cup LongClimbs \cup LongFalls

Returns ==
    {Num(-1), R(-1, 7), R(-14, 100), R(-1, 10), Zero, R(1, 10), R(14, 100),
     R(1, 7), R(1, 5), Num(1)}

Vols ==
    {Zero, R(149999, 1000000), R(15, 100), R(1, 5), R(25, 100), R(3, 10),
     R(4, 10), R(5, 10), Num(1)}

MAInputs == {Zero, R(1, 5), Num(1)}

NoScalars == <<Zero, None, None>>

ThresholdPairs ==
    {<<Num(_UPTREND_MIN), Num(_DOWNTREND_MAX)>>,
     <<Num(50), Num(50)>>,
     <<R(606, 10), Num(45)>>,
     <<R(926, 10), R(67, 10)>>}

Windows == {1, 2, 3, 20, 50}

Periods == {1, 2, 20}

RsiPeriods == {1, 2, 3, 14}

ReturnPeriods == {1, 2, 5, 20}

(* Volume series: a run of one volume, the oldest value possibly nine      *)
(* times larger, and any last value around the 1.5-fold and the 2-fold of  *)
(* the run.                                                                *)
VolumeLens == {1, 2, 3, 20, 21, 24, 25}

BaseVolumes == {0, 1000000}

LastVolumes == {0, 1, 1499999, 1500000, 1999999, 2000000, 2000001}

VolumeInputs ==
    {<<x[3] * x[2]>> \o Flat(x[2], x[1] - 2) \o <<x[4]>> :
        x \in (VolumeLens \ {1}) \X BaseVolumes \X {1, 9} \X LastVolumes}
    \cup {<<v>> : v \in LastVolumes}

Multipliers == {Num(2), R(3, 2)}

VolumeWindows == {1, 2, 20, 24}

NoCall == [uptrend_min |-> None, downtrend_max |-> None, window |-> 0, multiplier |-> None]

Init ==
    /\ \/ /\ prices \in PriceInputs
          /\ volumes = Flat(1, Len(prices))
          /\ scalars = NoScalars
       \/ /\ prices \in SpikeInputs
          /\ volumes = Flat(1, Len(prices) - 1) \o <<2>>
          /\ scalars = NoScalars
       \/ /\ prices \in TrendInputs
          /\ volumes = Flat(1, Len(prices))
          /\ scalars = NoScalars
       \/ /\ volumes \in VolumeInputs
          /\ prices = Flat(BasePrice, Len(volumes))
          /\ scalars = NoScalars
       \/ /\ prices = <<>>
          /\ volumes = <<>>
          /\ scalars \in MAInputs \X (Returns \cup {None}) \X (Vols \cup {None})
    /\ pc = "start"
    /\ call = NoCall
    /\ ret = None
    /\ result = Raised(NoException)
    /\ Installed
    /\ Standalone

(* classify(prices, volumes, uptrend_min, downtrend_max) *)
Classify ==
    /\ pc = "start"
    /\ \E th \in ThresholdPairs :
          /\ call' = [NoCall EXCEPT !.uptrend_min = th[1], !.downtrend_max = th[2]]
          /\ result' = classify(prices, volumes, th[1], th[2], Num(2))
    /\ pc' = "classify"
    /\ UNCHANGED <<prices, volumes, scalars, ret, world>>

(* moving_average(prices, window) *)
MovingAverage ==
    /\ pc = "start"
    /\ \E window \in Windows :
          /\ call' = [NoCall EXCEPT !.window = window]
          /\ ret' = moving_average(prices, window)
    /\ pc' = "moving_average"
    /\ UNCHANGED <<prices, volumes, scalars, result, world>>

(* volatility(prices, period) *)
Volatility ==
    /\ pc = "start"
    /\ \E period \in Periods :
          /\ call' = [NoCall EXCEPT !.window = period]
          /\ ret' = volatility(prices, period)
    /\ pc' = "volatility"
    /\ UNCHANGED <<prices, volumes, scalars, result, world>>

(* rsi(prices, period) *)
Rsi ==
    /\ pc = "start"
    /\ \E period \in RsiPeriods :
          /\ call' = [NoCall EXCEPT !.window = period]
          /\ ret' = rsi(prices, period)
    /\ pc' = "rsi"
    /\ UNCHANGED <<prices, volumes, scalars, result, world>>

(* period_return(prices, n) *)
PeriodReturn ==
    /\ pc = "start"
    /\ \E n \in ReturnPeriods :
          /\ call' = [NoCall EXCEPT !.window = n]
          /\ ret' = period_return(prices, n)
    /\ pc' = "period_return"
    /\ UNCHANGED <<prices, volumes, scalars, result, world>>

(* volume_anomaly(volumes, multiplier, window) *)
VolumeAnomaly ==
    /\ pc = "start"
    /\ \E multiplier \in Multipliers, window \in VolumeWindows :
          /\ call' = [NoCall EXCEPT !.multiplier = multiplier, !.window = window]
          /\ ret' = volume_anomaly(volumes, multiplier, window)
    /\ pc' = "volume_anomaly"
    /\ UNCHANGED <<prices, volumes, scalars, result, world>>

(* _ma_score(price, ma20, ma50) *)
MaScore ==
    /\ pc = "start"
    /\ ret' = _ma_score(scalars[1], scalars[2], scalars[3])
    /\ pc' = "_ma_score"
    /\ UNCHANGED <<prices, volumes, scalars, call, result, world>>

(* _momentum_score(return_20d) *)
MomentumScore ==
    /\ pc = "start"
    /\ ret' = _momentum_score(scalars[2])
    /\ pc' = "_momentum_score"
    /\ UNCHANGED <<prices, volumes, scalars, call, result, world>>

(* _volatility_score(vol) *)
VolatilityScore ==
    /\ pc = "start"
    /\ ret' = _volatility_score(scalars[3])
    /\ pc' = "_volatility_score"
    /\ UNCHANGED <<prices, volumes, scalars, call, result, world>>

Next ==
    \/ Classify
    \/ MovingAverage
    \/ Volatility
    \/ Rsi
    \/ PeriodReturn
    \/ VolumeAnomaly
    \/ MaScore
    \/ MomentumScore
    \/ VolatilityScore

Spec == Init /\ [][Next]_vars

---------------------------------------------------------------------------
(* The pipeline and the delivery functions as a state machine: a database  *)
(* that pipeline runs and direct calls of post_digest_tweet act on, under  *)
(* a clock.  config and env are the inputs of a run: the delivery switches *)
(* and what the provider, SES and X answer.                                *)

MaxReports == 2

MaxTweets == 2

(* An outcome is drawn only for a call that is made. *)
Consulted(env) ==
    /\ (config.dry_run \/ ~ config.enable_email) => env.send_email = "ok"
    /\ (config.dry_run \/ ~ config.enable_twitter) => env.create_tweet = "ok"

(* No call of the engine's functions is being checked. *)
Idle ==
    /\ prices = <<>>
    /\ volumes = <<>>
    /\ scalars = NoScalars
    /\ pc = "start"
    /\ call = NoCall
    /\ ret = None
    /\ result = Raised(NoException)

PipelineInit ==
    /\ Installed
    /\ config \in Configs
    /\ provider \in Providers
    /\ Idle

engine == <<prices, volumes, scalars, pc, call, ret, result>>

(* run_daily_pipeline(config, conn, provider, run_date) *)
RunDailyPipeline ==
    /\ conn.sqlite_sequence.reports < MaxReports
    /\ \E run_date \in Days, env \in Envs :
          /\ Consulted(env)
          /\ \E end \in {run_daily_pipeline(conn, reports_dir, timeline, today,
                                            run_date, config, provider, env)} :
                /\ conn' = end.conn
                /\ reports_dir' = end.reports_dir
                /\ timeline' = end.timeline
                /\ run' = [op |-> "run_daily_pipeline", today |-> today, run_date |-> run_date,
                           raised |-> end.raised,
                           skipped |-> end.skipped, attempts |-> end.attempts,
                           requested |-> end.requested]
    /\ UNCHANGED <<today, config, provider, engine>>

Total(posted) == IntSum(posted)

(* post_digest_tweet(d, report_id, conn, ..., dry_run) for a stored report *)
PostDigestTweet ==
    /\ Total(timeline) < MaxTweets
    /\ \E report \in conn.reports, dry_run \in BOOLEAN,
          create_tweet \in {"ok", TweepyException} :
          /\ dry_run => create_tweet = "ok"
          /\ LET end == post_digest_tweet(conn, timeline, report.run_date, report.id,
                                          dry_run, create_tweet)
             IN  /\ conn' = end.conn
                 /\ timeline' = end.timeline
                 /\ run' = [op |-> "post_digest_tweet", today |-> today,
                            run_date |-> report.run_date,
                            raised |-> end.raised, skipped |-> end.skipped,
                            attempts |-> NoAttempts, requested |-> NoRequests]
    /\ UNCHANGED <<today, reports_dir, config, provider, engine>>

(* date.today() moves on. *)
NextDay ==
    /\ today < MaxDay
    /\ today' = today + 1
    /\ UNCHANGED <<conn, reports_dir, timeline, config, provider, run, engine>>

PipelineNext ==
    \/ RunDailyPipeline
    \/ NextDay

PipelineSpec == PipelineInit /\ [][PipelineNext]_vars

(* The delivery functions called directly on stored reports, as the        *)
(* integration tests do: a report is stored with insert_report and a tweet *)
(* for it is posted, dry-run or for real, any number of times.             *)
DeliveryInit ==
    /\ Installed
    /\ Standalone
    /\ Idle

(* repository.insert_report(conn, record) *)
InsertReport ==
    /\ conn.sqlite_sequence.reports < MaxReports
    /\ \E run_date \in Days :
          LET end == insert_report(conn, [id |-> 0, run_date |-> run_date,
                                         ticker_count |-> 0, uptrend_count |-> 0,
                                         downtrend_count |-> 0, sideways_count |-> 0])
          IN  /\ conn' = end.conn
              /\ run' = [op |-> "insert_report", today |-> today, run_date |-> run_date,
                         raised |-> end.raised, skipped |-> FALSE,
                         attempts |-> NoAttempts, requested |-> NoRequests]
    /\ UNCHANGED <<today, reports_dir, timeline, config, provider, engine>>

DeliveryNext ==
    \/ InsertReport
    \/ PostDigestTweet

DeliverySpec == DeliveryInit /\ [][DeliveryNext]_vars

(* The price store called directly: batches of OHLCV rows are upserted,    *)
(* the series of a ticker is read with a limit, and the indicators of a    *)
(* ticker are computed for a run_date.  call holds the arguments of the    *)
(* last call and ret the value it returned.  The batches are the           *)
(* provider's rows of the first ticker, a revision of its first day with   *)
(* every value changed, and at most two rows of distinct keys at a time.   *)
MaxIndicators == 2

Revised(r) ==
    [r EXCEPT !.open = Num(1), !.close = Num(2), !.adj_close = Num(3), !.volume = 2000]

StorageRows ==
    {OHLCV(tickers[1], d) : d \in Days} \cup {Revised(OHLCV(tickers[1], 1))}

Batches ==
    {rows \in SUBSET StorageRows :
        /\ Cardinality(rows) <= 2
        /\ \A p, q \in rows : SameKey(p, q) => p = q}

Limits == {1, 2, SERIES_LIMIT}

StorageInit ==
    /\ Installed
    /\ Standalone
    /\ Idle

(* repository.upsert_prices(conn, rows) *)
UpsertPrices ==
    /\ \E rows \in Batches :
          \E end \in {upsert_prices(conn, rows)} :
              /\ conn' = end.conn
              /\ call' = [rows |-> rows]
              /\ ret' = end.value
              /\ run' = [NoRun EXCEPT !.op = "upsert_prices", !.raised = end.raised]
    /\ UNCHANGED <<prices, volumes, scalars, pc, result, today, reports_dir,
                   timeline, config, provider>>

(* repository.get_adj_close_series(conn, ticker, limit) *)
GetAdjCloseSeries ==
    /\ \E i \in 1..Len(tickers), limit \in Limits :
          /\ call' = [ticker |-> tickers[i], limit |-> limit]
          /\ ret' = get_adj_close_series(conn, tickers[i], limit)
          /\ run' = [NoRun EXCEPT !.op = "get_adj_close_series"]
    /\ UNCHANGED <<prices, volumes, scalars, pc, result, today, conn, reports_dir,
                   timeline, config, provider>>

(* _compute_indicators_for_ticker(ticker, conn, run_date, config) *)
ComputeIndicatorsForTicker ==
    /\ Cardinality(conn.indicators) < MaxIndicators
    /\ \E i \in 1..Len(tickers), run_date \in Days :
          \E end \in {_compute_indicators_for_ticker(conn, tickers[i], run_date)} :
              /\ conn' = end.conn
              /\ call' = [ticker |-> tickers[i], run_date |-> run_date]
              /\ ret' = end.value
              /\ run' = [NoRun EXCEPT !.op = "_compute_indicators_for_ticker",
                                      !.run_date = run_date, !.raised = end.raised]
    /\ UNCHANGED <<prices, volumes, scalars, pc, result, today, reports_dir,
                   timeline, config, provider>>

StorageNext ==
    \/ UpsertPrices
    \/ GetAdjCloseSeries
    \/ ComputeIndicatorsForTicker

StorageSpec == StorageInit /\ [][StorageNext]_vars

(* classify on constant series of decimal prices, computed in binary64.    *)
FlatPrices ==
    {Num(16), Num(100), R(1, 10), R(7, 10), R(33, 10), R(6805, 100), R(9999, 100),
     R(12345, 100), R(12828, 100), R(24822, 100), R(42387, 100), R(45081, 100)}

FlatLens == {50, 51, 60}

Binary64Init ==
    /\ prices \in {Flat(v, n) : v \in FlatPrices, n \in FlatLens}
    /\ volumes = Flat(1, Len(prices))
    /\ scalars = NoScalars
    /\ pc = "start"
    /\ call = NoCall
    /\ ret = None
    /\ result = Raised(NoException)
    /\ Installed
    /\ Standalone

(* classify(prices, volumes, uptrend_min, downtrend_max) *)
ClassifyBinary64 ==
    /\ pc = "start"
    /\ \E th \in ThresholdPairs :
          /\ call' = [NoCall EXCEPT !.uptrend_min = th[1], !.downtrend_max = th[2]]
          /\ result' = classify_binary64(prices, volumes, th[1], th[2], Num(2))
    /\ pc' = "classify"
    /\ UNCHANGED <<prices, volumes, scalars, ret, world>>

Binary64Next == ClassifyBinary64

Binary64Spec == Binary64Init /\ [][Binary64Next]_vars

---------------------------------------------------------------------------
(* Properties.  Comparisons in the properties are by cross-multiplication  *)
(* of numerators and denominators, not by the operators of the model.      *)

Less(a, b) == a[1] * b[2] < b[1] * a[2]
LessEq(a, b) == a[1] * b[2] <= b[1] * a[2]

Returned == pc = "classify" /\ result.exc = NoException

HasNaN(series) == \E i \in 1..Len(series) : series[i] = NaN
HasZero(series) == \E i \in 1..Len(series) : series[i] = Zero

LastPrice == IF prices = <<>> THEN Zero ELSE prices[Len(prices)]

(* C1: classify and the indicators never raise: every call of classify     *)
(* returns a TrendResult and every call of volatility returns a number or  *)
(* None, whatever the series holds (0.0 prices and NaN included).          *)
C1_NeverRaises ==
    /\ pc = "classify" => result.exc = NoException
    /\ pc = "volatility" => ret # ZeroDivisionError

(* C2: the TrendResult classify returns has 0 <= composite <= 100 and      *)
(* strength is composite rounded to one decimal: a multiple of 1/10 in     *)
(* [0, 100] no further than 1/20 from composite.                           *)
C2_CompositeRange ==
    Returned =>
        LET c == result.composite
            t == result.strength
        IN  /\ IsNum(c) /\ IsNum(t)
            /\ 0 <= c[1] /\ c[1] <= 100 * c[2]
            /\ 10 % t[2] = 0
            /\ 0 <= t[1] /\ t[1] <= 100 * t[2]
            /\ 20 * Abs(t[1] * c[2] - c[1] * t[2]) <= t[2] * c[2]

C2_Witness ==
    /\ Returned
    /\ result.composite # result.strength
    /\ ~ IsNone(result.ma50)

(* C3: the label is decided by the unrounded composite and the thresholds  *)
(* of the call: Uptrend iff composite >= uptrend_min, else Downtrend iff   *)
(* composite <= downtrend_max, else Sideways.                              *)
C3_LabelFromComposite ==
    Returned =>
        LET c == result.composite
        IN  /\ result.label = UPTREND <=> LessEq(call.uptrend_min, c)
            /\ result.label = DOWNTREND <=>
                   Less(c, call.uptrend_min) /\ LessEq(c, call.downtrend_max)
            /\ result.label = SIDEWAYS <=>
                   Less(c, call.uptrend_min) /\ Less(call.downtrend_max, c)

(* A composite just below uptrend_min whose strength rounds up to it.      *)
C3_Witness ==
    /\ Returned
    /\ Less(result.composite, call.uptrend_min)
    /\ result.strength = call.uptrend_min
    /\ result.label = SIDEWAYS

(* C4: composite is 0.30*MA + 0.25*RSI + 0.30*Momentum + 0.15*Volatility   *)
(* clamped to [0, 100], with the RSI sub-score rsi14 itself or 50 when it  *)
(* is unavailable and the other sub-scores those of ma20/ma50, return_20d  *)
(* and volatility_20d.                                                     *)
SubScoreSum ==
    LET ma_s  == _ma_score(LastPrice, result.ma20, result.ma50)
        rsi_s == IF IsNone(result.rsi14) THEN Num(50) ELSE result.rsi14
        mom_s == _momentum_score(result.return_20d)
        vol_s == _volatility_score(result.volatility_20d)
    IN  RAdd(RAdd(RMul(Num(30), ma_s), RMul(Num(25), rsi_s)),
             RAdd(RMul(Num(30), mom_s), RMul(Num(15), vol_s)))

C4_CompositeFormula ==
    Returned =>
        LET sum == SubScoreSum
            c   == RMul(result.composite, Num(100))
        IN  IF sum[1] < 0 THEN c = Zero
            ELSE IF sum[1] > 10000 * sum[2] THEN c = Num(10000)
            ELSE c = sum

(* All four sub-scores come from available indicators, none neutral, with  *)
(* return_1d and return_5d differing from return_20d.                      *)
C4_Witness ==
    /\ Returned
    /\ ~ IsNone(result.ma50) /\ ~ IsNone(result.rsi14)
    /\ ~ IsNone(result.return_20d) /\ ~ IsNone(result.volatility_20d)
    /\ result.rsi14 # Num(50) /\ result.rsi14 # Num(100) /\ result.rsi14 # Zero
    /\ result.return_1d # result.return_20d
    /\ result.return_5d # result.return_1d

(* C5: the MA alignment sub-score: 50 with no MA; 70 or 30 with one MA by  *)
(* price > MA; with both 90 for price > ma20 > ma50, 10 for price < ma20 < *)
(* ma50, 60 for price > ma20 and ma20 <= ma50, 40 for price < ma20 and     *)
(* ma20 >= ma50, and 50 otherwise, which is exactly when price = ma20.     *)
(* classify hands it a price that is a number whenever an MA is available. *)
MATable(p, a, b) ==
    IF IsNone(a) /\ IsNone(b) THEN 50
    ELSE IF IsNone(a) THEN (IF Less(b, p) THEN 70 ELSE 30)
    ELSE IF IsNone(b) THEN (IF Less(a, p) THEN 70 ELSE 30)
    ELSE IF Less(a, p) /\ Less(b, a) THEN 90
    ELSE IF Less(p, a) /\ Less(a, b) THEN 10
    ELSE IF Less(a, p) /\ LessEq(a, b) THEN 60
    ELSE IF Less(p, a) /\ LessEq(b, a) THEN 40
    ELSE 50

C5_MAScore ==
    /\ pc = "_ma_score" =>
          LET p == scalars[1]
              a == scalars[2]
              b == scalars[3]
          IN  /\ ret = Num(MATable(p, a, b))
              /\ ~ IsNone(a) /\ ~ IsNone(b) => (ret = Num(50) <=> p = a)
    /\ Returned /\ (~ IsNone(result.ma20) \/ ~ IsNone(result.ma50)) => IsNum(LastPrice)

C5_Witness ==
    /\ pc = "_ma_score"
    /\ ~ IsNone(scalars[2])
    /\ scalars[2] = scalars[3]
    /\ Less(scalars[2], scalars[1])
    /\ ret = Num(60)

(* C6: the momentum sub-score is 50 without return_20d and otherwise       *)
(* 50 + 350 * return_20d clamped to [0, 100]; it never decreases as the    *)
(* return grows, is 100 from 1/7 on and 0 up to -1/7.                      *)
C6_MomentumScore ==
    pc = "_momentum_score" =>
        LET x == scalars[2]
        IN  IF IsNone(x) THEN ret = Num(50)
            ELSE LET raw == 50 * x[2] + 350 * x[1]      \* raw / x[2] = 50 + 350 x
                 IN  /\ raw <= 0 => ret = Zero
                     /\ raw >= 100 * x[2] => ret = Num(100)
                     /\ 0 < raw /\ raw < 100 * x[2] => ret[1] * x[2] = raw * ret[2]
                     /\ 7 * x[1] >= x[2] => ret = Num(100)
                     /\ 7 * x[1] <= -x[2] => ret = Zero
                     /\ \A r \in Returns :
                            LessEq(r, x) => LessEq(_momentum_score(r), ret)

C6_Witness ==
    /\ pc = "_momentum_score"
    /\ scalars[2] = R(1, 7)
    /\ ret = Num(100)

(* C7: the volatility sub-score is 50 without volatility_20d, 70 below     *)
(* 0.15, 55 from 0.15 to below 0.25, 40 from 0.25 to below 0.40 and 25     *)
(* from 0.40 on; a volatility computed as 0.0 scores 70, also in classify. *)
C7_VolatilityScore ==
    /\ pc = "_volatility_score" =>
          LET v == scalars[3]
          IN  IF IsNone(v) THEN ret = Num(50)
              ELSE IF 100 * v[1] < 15 * v[2] THEN ret = Num(70)
              ELSE IF 100 * v[1] < 25 * v[2] THEN ret = Num(55)
              ELSE IF 100 * v[1] < 40 * v[2] THEN ret = Num(40)
              ELSE ret = Num(25)
    /\ Returned /\ result.volatility_20d = Zero =>
          LET ma_s  == _ma_score(LastPrice, result.ma20, result.ma50)
              rsi_s == IF IsNone(result.rsi14) THEN Num(50) ELSE result.rsi14
              mom_s == _momentum_score(result.return_20d)
          IN  RMul(result.composite, Num(100)) =
                  RAdd(RAdd(RMul(Num(30), ma_s), RMul(Num(25), rsi_s)),
                       RAdd(RMul(Num(30), mom_s), Num(15 * 70)))

C7_Witness ==
    /\ Returned
    /\ Len(prices) >= 21
    /\ result.volatility_20d = Zero

(* C8: with fewer than 15 prices, or a NaN anywhere in the series,         *)
(* classify returns with every indicator behind a sub-score unavailable,   *)
(* composite = strength = 50 and, for downtrend_max < 50 < uptrend_min,    *)
(* the label Sideways.                                                     *)
C8_MissingDataNeutral ==
    pc = "classify" /\ (Len(prices) < 15 \/ HasNaN(prices)) =>
        /\ result.exc = NoException
        /\ IsNone(result.ma20) /\ IsNone(result.ma50) /\ IsNone(result.rsi14)
        /\ IsNone(result.return_20d) /\ IsNone(result.volatility_20d)
        /\ result.composite = Num(50)
        /\ result.strength = Num(50)
        /\ Less(call.downtrend_max, Num(50)) /\ Less(Num(50), call.uptrend_min)
               => result.label = SIDEWAYS

C8_Witness ==
    /\ Returned
    /\ Len(prices) >= 50
    /\ HasNaN(prices)
    /\ result.composite = Num(50)
    /\ result.label = SIDEWAYS

(* C9: for a NaN-free series of n non-zero prices classify returns, with   *)
(* return_1d available iff n >= 2, return_5d iff n >= 6, rsi14 iff n >= 15, *)
(* ma20 iff n >= 20, return_20d and volatility_20d iff n >= 21 and ma50    *)
(* iff n >= 50, and with a label and a strength in every case.             *)
C9_Availability ==
    pc = "classify" /\ ~ HasNaN(prices) /\ ~ HasZero(prices) =>
        LET n == Len(prices)
        IN  /\ result.exc = NoException
            /\ ~ IsNone(result.return_1d) <=> n >= 2
            /\ ~ IsNone(result.return_5d) <=> n >= 6
            /\ ~ IsNone(result.rsi14) <=> n >= 15
            /\ ~ IsNone(result.ma20) <=> n >= 20
            /\ ~ IsNone(result.return_20d) <=> n >= 21
            /\ ~ IsNone(result.volatility_20d) <=> n >= 21
            /\ ~ IsNone(result.ma50) <=> n >= 50
            /\ result.label \in {UPTREND, DOWNTREND, SIDEWAYS}
            /\ IsNum(result.strength)

C9_Witness ==
    /\ Returned
    /\ Len(prices) = 30
    /\ ~ HasNaN(prices) /\ ~ HasZero(prices)
    /\ IsNone(result.ma50)
    /\ ~ IsNone(result.ma20)
    /\ IsNum(result.strength)

(* C10: moving_average(series, window) is the mean of the last window      *)
(* values when the series has at least window values and no NaN, and None  *)
(* otherwise; older values do not change it, except that a NaN among them  *)
(* makes it None.  (The input prices are whole numbers.)                   *)
RECURSIVE RangeSum(_, _, _)
RangeSum(s, i, j) ==
    IF i > j THEN 0
    ELSE IF i = j THEN s[i][1]
    ELSE LET m == (i + j) \div 2 IN RangeSum(s, i, m) + RangeSum(s, m + 1, j)

C10_MovingAverage ==
    pc = "moving_average" =>
        LET w == call.window
            n == Len(prices)
        IN  IF n >= w /\ ~ HasNaN(prices)
            THEN /\ IsNum(ret)
                 /\ \A i \in 1..n : prices[i][2] = 1
                 /\ ret[1] * w = ret[2] * RangeSum(prices, n - w + 1, n)
                 /\ ret = moving_average(LastN(prices, w), w)
            ELSE ret = None

(* A NaN older than the window, none inside it: the result is None. *)
C10_Witness ==
    /\ pc = "moving_average"
    /\ Len(prices) > call.window
    /\ \E i \in 1..(Len(prices) - call.window) : prices[i] = NaN
    /\ \A i \in (Len(prices) - call.window + 1)..Len(prices) : IsNum(prices[i])
    /\ ret = None

(* C11: rsi(series, period) is None when the series has fewer than         *)
(* period + 1 values or holds a NaN; otherwise it is Wilder's RSI: the     *)
(* averages start as the simple means of the first period gains and losses *)
(* and each later delta x turns avg into (avg * (period - 1) + x) / period; *)
(* the result is exactly 100 when the final average loss is 0 and          *)
(* 100 - 100 / (1 + avg_gain / avg_loss) rounded to 4 decimals otherwise,  *)
(* and it lies in [0, 100].                                                *)
(*                                                                         *)
(* The reference below runs the recurrence on whole numbers.  The gain and *)
(* the loss average are kept over one denominator P as <<G, L, P>>: the    *)
(* seed is <<sum of gains, sum of losses, period>> and a pass with gain x  *)
(* and loss y turns <<G, L, P>> into                                       *)
(* <<(period-1)*G + P*x, (period-1)*L + P*y, period*P>>; while G and L are *)
(* both 0 a pass without gain or loss leaves them 0 over any denominator.  *)
(* The result is 100 when L = 0 and 100 * G / (G + L) rounded otherwise.   *)
(* (The input prices are whole numbers; G, L and P are numbers beyond the  *)
(* machine word.)                                                          *)
IntDelta(i) == prices[i + 1][1] - prices[i][1]
IntGain(i) == IF IntDelta(i) > 0 THEN IntDelta(i) ELSE 0
IntLoss(i) == IF IntDelta(i) < 0 THEN - IntDelta(i) ELSE 0

RECURSIVE IntRange(_, _, _)
IntRange(X(_), i, j) ==
    IF i > j THEN 0
    ELSE IF i = j THEN X(i)
    ELSE LET m == (i + j) \div 2 IN IntRange(X, i, m) + IntRange(X, m + 1, j)

WilderPass(st, i, p) ==
    IF IntDelta(i) = 0 /\ st[1] = <<>> /\ st[2] = <<>> THEN st
    ELSE <<BigAdd(BigMul(st[1], BigOf(p - 1)), BigMul(st[3], BigOf(IntGain(i))), 0),
           BigAdd(BigMul(st[2], BigOf(p - 1)), BigMul(st[3], BigOf(IntLoss(i))), 0),
           BigMul(st[3], BigOf(p))>>

RECURSIVE WilderPasses(_, _, _, _)
WilderPasses(st, i, n, p) ==
    IF i > n THEN st
    ELSE LET next == WilderPass(st, i, p)
         IN  IF next = st THEN WilderPasses(st, i + 1, n, p)
             ELSE WilderPasses(next, i + 1, n, p)

(* <<G, L, P>> after the n deltas of prices, for period p <= n *)
WilderReference(p, n) ==
    WilderPasses(<<BigOf(IntRange(IntGain, 1, p)), BigOf(IntRange(IntLoss, 1, p)), BigOf(p)>>,
                 p + 1, n, p)

(* v / 10^4 is 100 * g / t rounded to 4 decimals, ties to the even v:      *)
(* |2 * v * t - 2 * 10^6 * g| <= t, with equality only for an even v.      *)
IsRsiUnits(v, g, t) ==
    LET a == BigMul(BigOf(2 * v), t)
        b == BigMul(BigOf(2000000), g)
    IN  /\ BigLeq(a, BigAdd(b, t, 0))
        /\ BigLeq(b, BigAdd(a, t, 0))
        /\ (a = BigAdd(b, t, 0) \/ b = BigAdd(a, t, 0)) => v % 2 = 0

StrictlyIncreasing(s) ==
    /\ \A i \in 1..Len(s) : IsNum(s[i])
    /\ \A i \in 1..(Len(s) - 1) : Less(s[i], s[i + 1])

StrictlyDecreasing(s) ==
    /\ \A i \in 1..Len(s) : IsNum(s[i])
    /\ \A i \in 1..(Len(s) - 1) : Less(s[i + 1], s[i])

C12_RsiMonotone ==
    pc = "rsi" /\ call.window >= 1 /\ Len(prices) >= call.window + 1 =>
        /\ StrictlyIncreasing(prices) => ret = Num(100)
        /\ StrictlyDecreasing(prices) => IsNum(ret) /\ Less(ret, Num(5))

(* A falling series of uneven steps, long enough for smoothing passes. *)
C12_Witness ==
    /\ pc = "rsi"
    /\ call.window = 14
    /\ Len(prices) >= 16
    /\ StrictlyDecreasing(prices)
    /\ \E i \in 2..(Len(prices) - 1) :
           prices[i - 1][1] - prices[i][1] # prices[i][1] - prices[i + 1][1]
    /\ IsNum(ret) /\ Less(ret, Num(5))

(* C13: period_return(series, n) is series[last] / series[last - n] - 1    *)
(* when the series has at least n + 1 values, no NaN and a base price      *)
(* series[last - n] other than 0; it is None, and nothing is raised, when  *)
(* the series is shorter, holds a NaN, or the base price is exactly 0.     *)
C13_PeriodReturn ==
    pc = "period_return" =>
        LET n    == call.window
            last == Len(prices)
        IN  IF last < n + 1 \/ HasNaN(prices) THEN ret = None
            ELSE LET now  == prices[last]
                     base == prices[last - n]
                 IN  IF base[1] = 0 THEN ret = None
                     ELSE /\ IsNum(ret)
                          /\ ret[1] * (base[1] * now[2])
                                 = ret[2] * (now[1] * base[2] - base[1] * now[2])

(* A return over more than a day, neither 0 nor -1. *)
C13_Witness ==
    /\ pc = "period_return"
    /\ call.window = 5
    /\ IsNum(ret)
    /\ ret # Zero /\ ret # Num(-1)

(* C14: volatility(series, period) is None iff the series has fewer than   *)
(* period + 1 values or holds a NaN; otherwise it returns a number >= 0:   *)
(* sqrt(252) times the population standard deviation of the period simple *)
(* returns of the last period + 1 prices, rounded to 6 decimals, and       *)
(* exactly 0 when those prices are constant or grow by a constant ratio.   *)
(*                                                                         *)
(* The reference works on the price ratios x_i = p_(i+1) / p_i, whose      *)
(* variance is that of the returns x_i - 1, over the product P of the      *)
(* divisors: x_i = X_i / P, and with S1 = SUM X_i and S2 = SUM X_i^2       *)
(*   variance = (n * S2 - S1^2) / (n * P)^2.                               *)
(* v / 10^6 is the rounded value iff (2v - 1)^2 <= 4 * 10^12 * 252 *       *)
(* variance <= (2v + 1)^2.  (The input prices are whole numbers.)          *)
RECURSIVE BigRange(_, _, _)
BigRange(X(_), i, j) ==
    IF i > j THEN <<>>
    ELSE IF i = j THEN X(i)
    ELSE LET m == (i + j) \div 2
         IN  BigAdd(BigRange(X, i, m), BigRange(X, m + 1, j), 0)

RECURSIVE BigProduct(_, _, _)
BigProduct(X(_), i, j) ==
    IF i > j THEN <<1>>
    ELSE IF i = j THEN X(i)
    ELSE LET m == (i + j) \div 2
         IN  BigMul(BigProduct(X, i, m), BigProduct(X, m + 1, j))

IsVolatilityUnits(v, tail, n) ==
    LET Price(i) == BigOf(tail[i][1])
        P     == BigProduct(Price, 1, n)
        xs    == list([i \in 1..n |-> BigMul(BigDivSmall(P, tail[i][1]), Price(i + 1))])
        X(i)  == xs[i]
        Sq(i) == BigMul(xs[i], xs[i])
        S1    == BigRange(X, 1, n)
        S2    == BigRange(Sq, 1, n)
        K     == BigMul(BigOf(4 * 252), BigMul(BigOf(1000000), BigOf(1000000)))
        nP    == BigMul(BigOf(n), P)
        nP2   == BigMul(nP, nP)
        mid   == BigMul(K, BigMul(BigOf(n), S2))
        off   == BigMul(K, BigMul(S1, S1))
        lo    == BigOf(2 * v - 1)
        hi    == BigOf(2 * v + 1)
    IN  /\ v = 0 \/ BigLeq(BigAdd(BigMul(BigMul(lo, lo), nP2), off, 0), mid)
        /\ BigLeq(mid, BigAdd(BigMul(BigMul(hi, hi), nP2), off, 0))

ConstantRatio(tail) ==
    \A i \in 2..(Len(tail) - 1) :
        tail[i][1] * tail[i][1] = tail[i - 1][1] * tail[i + 1][1]

C14_Volatility ==
    pc = "volatility" =>
        LET period == call.window
        IN  IF Len(prices) < period + 1 \/ HasNaN(prices) THEN ret = None
            ELSE LET tail == LastN(prices, period + 1)
                 IN  /\ \A i \in 1..(period + 1) : tail[i][2] = 1
                     /\ IsNum(ret)
                     /\ ret[1] >= 0
                     /\ 1000000 % ret[2] = 0
                     /\ (\A i \in 1..period : tail[i][1] # 0) =>
                            IsVolatilityUnits(ret[1] * (1000000 \div ret[2]), tail, period)
                     /\ ConstantRatio(tail) => ret = Zero

(* The statement of C14 for the calls that return. *)
C14_WhenReturned ==
    pc = "volatility" /\ ret # ZeroDivisionError => C14_Volatility

(* C15: volume_anomaly(volumes, multiplier, window) is True iff there are  *)
(* at least window + 1 volumes, the mean of the window volumes just before *)
(* the last one is not 0 and the last volume is at least multiplier times  *)
(* that mean (a last volume equal to it included); in every other case it  *)
(* is False, never None.                                                   *)
PriorSum(w) == IntRange(LAMBDA i : volumes[Len(volumes) - w - 1 + i], 1, w)

C15_VolumeAnomaly ==
    pc = "volume_anomaly" =>
        LET w == call.window
            m == call.multiplier
            n == Len(volumes)
        IN  /\ ret \in BOOLEAN
            /\ ret <=> /\ n >= w + 1
                       /\ PriorSum(w) # 0
                       /\ volumes[n] * w * m[2] >= m[1] * PriorSum(w)

(* 24 volumes of 1,000,000 and then 2,000,000: exactly twice the mean.     *)
C15_Witness ==
    /\ pc = "volume_anomaly"
    /\ call.window = 20
    /\ call.multiplier = Num(2)
    /\ volumes = Flat(1000000, 24) \o <<2000000>>
    /\ ret = TRUE

(* C16: on every strictly increasing series of at least 50 positive prices *)
(* classify with the thresholds 62/38 finds the price above the 20-day     *)
(* average above the 50-day average (MA sub-score 90), an RSI of 100 and a *)
(* momentum sub-score above 50, and labels the series Uptrend; when the    *)
(* price also gained at least 10% over the last 20 days, as 100 * 1.005^i  *)
(* does (1.005^20 > 1.1), the strength is above 80.                        *)
DefaultThresholds ==
    call.uptrend_min = Num(_UPTREND_MIN) /\ call.downtrend_max = Num(_DOWNTREND_MAX)

Positive(s) == \A i \in 1..Len(s) : IsNum(s[i]) /\ s[i][1] > 0

C16_SlowClimb ==
    /\ pc = "classify"
    /\ DefaultThresholds
    /\ Len(prices) >= 50
    /\ StrictlyIncreasing(prices)
    /\ result.label = UPTREND
    /\ LessEq(result.strength, Num(80))

C17_SlowFall ==
    /\ pc = "classify"
    /\ DefaultThresholds
    /\ Len(prices) >= 50
    /\ StrictlyDecreasing(prices)
    /\ result.label = DOWNTREND
    /\ LessEq(Num(20), result.strength)

(* C18: after any sequence of post_digest_tweet calls for one run_date,    *)
(* dry-run, failing and succeeding in any order, create_tweet has          *)
(* succeeded at most once for that run_date.                               *)
C18_PostedOnce == \A d \in Days : timeline[d] <= 1

(* The statement of C18 for the days without a dry_run or failed log row:  *)
(* there the first tweet posted is the only one.                           *)
C18_WhenFirstLogged ==
    \A d \in Days :
        (~ \E t \in conn.tweet_logs : t.run_date = d /\ t.status # "posted") =>
            timeline[d] <= 1

(* C19: a call of post_digest_tweet that the duplicate guard does not skip *)
(* returns normally and has inserted one tweet_logs row for its run_date,  *)
(* with status dry_run, posted (tweet_id recorded) or failed               *)
(* (error_message recorded), whatever was logged for the run_date before.  *)
JustLogged ==
    {t \in conn.tweet_logs : /\ t.id = conn.sqlite_sequence.tweet_logs
                             /\ t.run_date = run.run_date}

C19_LogsEveryAttempt ==
    (run.op = "post_digest_tweet" /\ ~ run.skipped) =>
        /\ run.raised = NoException
        /\ Cardinality(JustLogged) = 1
        /\ \A t \in JustLogged :
              \/ t.status = "dry_run" /\ t.tweet_id = NoTweetId
              \/ t.status = "posted" /\ t.tweet_id # NoTweetId
              \/ t.status = "failed" /\ t.error_message = TweepyException

(* The statement of C19 for the first attempt of a run_date: a call made   *)
(* when no row is logged for the run_date returns normally and adds one    *)
(* row.                                                                    *)
C19_FirstAttempt ==
    [][(/\ run'.op = "post_digest_tweet"
        /\ ~ \E t \in conn.tweet_logs : t.run_date = run'.run_date) =>
           /\ run'.raised = NoException
           /\ ~ run'.skipped
           /\ conn.tweet_logs \subseteq conn'.tweet_logs
           /\ Cardinality(conn'.tweet_logs \ conn.tweet_logs) = 1]_vars

(* C20: after any number of pipeline runs the reports table holds at most  *)
(* one row per run_date; a run for a trading date that completes leaves    *)
(* exactly one row for that date, and a date that has a row keeps exactly  *)
(* one through every later run.                                            *)
ReportsFor(db, d) == {r \in db.reports : r.run_date = d}

PipelineRan == today' = today /\ run'.op = "run_daily_pipeline" /\ ~ run'.skipped

C21_IncrementalFetch ==
    /\ [][PipelineRan =>
            \A i \in 1..Len(tickers) :
                LET max_date == MaxOf({NoDate} \cup
                                      {p.date : p \in {q \in conn.prices :
                                                          q.ticker = tickers[i]}})
                IN  /\ max_date = NoDate =>
                          run'.requested[i] = <<today - config.backfill_days, today>>
                    /\ (max_date # NoDate /\ max_date < today) =>
                          run'.requested[i] = <<max_date + 1, today>>
                    /\ max_date >= today =>
                          /\ run'.requested[i] = NoRequest
                          /\ run'.attempts[i] = 0]_vars
    /\ [](\A p, q \in conn.prices : (p.ticker = q.ticker /\ p.date = q.date) => p = q)
    /\ [][(/\ PipelineRan
            /\ run.op = "run_daily_pipeline"
            /\ ~ run.skipped
            /\ run.today = today) =>
               Cardinality(conn'.prices) = Cardinality(conn.prices)]_vars

(* The second run of a day on which the first stored prices: no provider   *)
(* call is made for the first ticker, whose rows reach today.              *)
C21_Witness ==
    /\ run.op = "run_daily_pipeline"
    /\ ~ run.skipped
    /\ run.today = today
    /\ run.requested[1] = NoRequest
    /\ \E p \in conn.prices : p.ticker = tickers[1] /\ p.date = today

(* C22: a pipeline run for a run_date that is not a trading day returns    *)
(* without a provider call and changes nothing: the five tables, the       *)
(* artifact files and the tweets posted are as before.                     *)
C22_HolidayChangesNothing ==
    [][(/\ today' = today
        /\ run'.op = "run_daily_pipeline"
        /\ run'.run_date \notin TradingDays) =>
           /\ run'.raised = NoException
           /\ run'.attempts = NoAttempts
           /\ run'.requested = NoRequests
           /\ conn'.prices = conn.prices
           /\ conn'.indicators = conn.indicators
           /\ conn'.reports = conn.reports
           /\ conn'.email_logs = conn.email_logs
           /\ conn'.tweet_logs = conn.tweet_logs
           /\ reports_dir' = reports_dir
           /\ timeline' = timeline]_vars

(* A run for the holiday on a database that earlier runs have filled. *)
C22_Witness ==
    /\ run.op = "run_daily_pipeline"
    /\ run.run_date \notin TradingDays
    /\ run.skipped
    /\ conn.reports # {}
    /\ conn.prices # {}

(* C23: in a pipeline run where fetch_ohlcv keeps raising ProviderError    *)
(* for a ticker, the fetch is attempted exactly MAX_ATTEMPTS times, no     *)
(* price row is written for that ticker, no exception escapes, every other *)
(* ticker is fetched and classified, and the report of the run is stored.  *)
Failing(i) == provider[i] >= MAX_ATTEMPTS /\ run.requested[i] # NoRequest

PricesOf(db, ticker) == {p \in db.prices : p.ticker = ticker}

Fetched(j) ==
    run.requested[j] # NoRequest =>
        fetch_ohlcv(tickers[j], run.requested[j][1], run.requested[j][2])
            \subseteq conn.prices

Classified(j) ==
    \E r \in conn.indicators : r.ticker = tickers[j] /\ r.date = run.run_date

C23_FailureIsolated ==
    (run.op = "run_daily_pipeline" /\ ~ run.skipped) =>
        \A i \in 1..Len(tickers) :
            Failing(i) =>
                /\ run.attempts[i] = MAX_ATTEMPTS
                /\ PricesOf(conn, tickers[i]) = {}
                /\ run.raised = NoException
                /\ \A j \in 1..Len(tickers) :
                      provider[j] < MAX_ATTEMPTS => Fetched(j) /\ Classified(j)
                /\ ReportsFor(conn, run.run_date) # {}

(* The statement of C23 without the runs that end at a constraint of the   *)
(* database: the provider's failure is handled, the other tickers are      *)
(* fetched, and a run that completes has classified them and stored the    *)
(* report.                                                                 *)
C23_FetchIsolated ==
    (run.op = "run_daily_pipeline" /\ ~ run.skipped) =>
        \A i \in 1..Len(tickers) :
            Failing(i) =>
                /\ run.attempts[i] = MAX_ATTEMPTS
                /\ PricesOf(conn, tickers[i]) = {}
                /\ run.raised \in {NoException, IntegrityError}
                /\ \A j \in 1..Len(tickers) : provider[j] < MAX_ATTEMPTS => Fetched(j)
                /\ run.raised = NoException =>
                      /\ \A j \in 1..Len(tickers) :
                            provider[j] < MAX_ATTEMPTS => Classified(j)
                      /\ ReportsFor(conn, run.run_date) # {}

(* C24: get_adj_close_series(conn, ticker, limit) returns the ticker's     *)
(* min(limit, stored) most recent price rows in ascending date order: its  *)
(* last element is the row of the ticker's maximum stored date.            *)
SeriesOf(rows) == {<<p.date, p.adj_close, p.volume>> : p \in rows}

Ascending(series) ==
    \A i \in 1..(Len(series) - 1) : series[i][1] < series[i + 1][1]

Smaller(a, b) == IF a < b THEN a ELSE b

MostRecent(rows, n) ==
    {p \in rows : Cardinality({q \in rows : q.date > p.date}) < n}

Oldest(rows, n) ==
    {p \in rows : Cardinality({q \in rows : q.date < p.date}) < n}

C24_MostRecentRows ==
    run.op = "get_adj_close_series" =>
        LET stored == PricesOf(conn, call.ticker)
            n == Smaller(call.limit, Cardinality(stored))
        IN  /\ Len(ret) = n
            /\ Ascending(ret)
            /\ {ret[i] : i \in 1..Len(ret)} = SeriesOf(MostRecent(stored, n))
            /\ stored # {} => ret[Len(ret)][1] = MaxOf({p.date : p \in stored})

(* The statement of C24 for a ticker with at most limit rows stored, which *)
(* are returned whole. *)
C24_WithinLimit ==
    (/\ run.op = "get_adj_close_series"
     /\ Cardinality(PricesOf(conn, call.ticker)) <= call.limit) =>
        /\ Len(ret) = Cardinality(PricesOf(conn, call.ticker))
        /\ Ascending(ret)
        /\ {ret[i] : i \in 1..Len(ret)} = SeriesOf(PricesOf(conn, call.ticker))
        /\ Len(ret) > 0 =>
              ret[Len(ret)][1] = MaxOf({p.date : p \in PricesOf(conn, call.ticker)})

(* What the query returns for any number of rows: the min(limit, stored)   *)
(* oldest rows in ascending date order.                                    *)
C24_OldestRows ==
    run.op = "get_adj_close_series" =>
        LET stored == PricesOf(conn, call.ticker)
            n == Smaller(call.limit, Cardinality(stored))
        IN  /\ Len(ret) = n
            /\ Ascending(ret)
            /\ {ret[i] : i \in 1..Len(ret)} = SeriesOf(Oldest(stored, n))

(* C25: after upsert_prices(rows) returns, every row of the batch is the   *)
(* one stored row of its (ticker, date), with open (high, low), close,     *)
(* adj_close and volume as in the batch, whether or not the key was stored *)
(* before, and the value returned is len(rows).                            *)
StoredFor(db, r) == {p \in db.prices : SameKey(p, r)}

C25_FullUpsert ==
    run.op = "upsert_prices" =>
        /\ run.raised = NoException
        /\ ret = Cardinality(call.rows)
        /\ \A r \in call.rows :
              /\ Cardinality(StoredFor(conn, r)) = 1
              /\ \A p \in StoredFor(conn, r) :
                    /\ p.open = r.open
                    /\ p.close = r.close
                    /\ p.adj_close = r.adj_close
                    /\ p.volume = r.volume

(* What upsert_prices does: a key that was not stored gets the row of the  *)
(* batch; a key that was stored gets its close, adj_close and volume and   *)
(* keeps the open stored before; the rows of other keys are unchanged.     *)
C25_ClosesUpserted ==
    [][run'.op = "upsert_prices" =>
        /\ ret' = Cardinality(call'.rows)
        /\ \A r \in call'.rows :
              /\ Cardinality(StoredFor(conn', r)) = 1
              /\ \A p \in StoredFor(conn', r) :
                    /\ p.close = r.close
                    /\ p.adj_close = r.adj_close
                    /\ p.volume = r.volume
                    /\ StoredFor(conn, r) = {} => p.open = r.open
                    /\ \A q \in StoredFor(conn, r) : p.open = q.open
        /\ \A q \in conn.prices :
              (\A r \in call'.rows : ~ SameKey(q, r)) => q \in conn'.prices
        /\ \A p \in conn'.prices :
              (\A r \in call'.rows : ~ SameKey(p, r)) => p \in conn.prices]_vars

(* C26: for every call of classify that returns, composite lies in         *)
(* [6.75, 92.5], strictly inside the clamp's [0, 100], so the clamp has    *)
(* not changed the weighted sum; no call is labelled Uptrend when          *)
(* uptrend_min > 92.5 or Downtrend when downtrend_max < 6.75.  The MA      *)
(* sub-score is one of 10, 30, 40, 50, 60, 70, 90, the volatility          *)
(* sub-score one of 25, 40, 50, 55, 70, and the RSI and the momentum       *)
(* sub-score lie in [0, 100].                                              *)
CompositeMin == R(675, 100)

CompositeMax == R(925, 10)

FlatCall ==
    /\ pc = "classify"
    /\ Len(prices) >= 50
    /\ prices = Flat(prices[1], Len(prices))
    /\ prices[1] # Zero

Price64 == Double(prices[1][1], prices[1][2])

C27_FlatIsUptrend ==
    FlatCall =>
        /\ result.rsi14 = Num(100)
        /\ result.ma20 = Price64
        /\ result.return_20d = Zero
        /\ result.volatility_20d = Zero
        /\ result.composite = R(655, 10)
        /\ DefaultThresholds => result.label = UPTREND

(* What holds of a constant series in binary64: rsi14, return_20d and the  *)
(* volatility are as stated, and the composite is 65.5 moved by the MA     *)
(* sub-score (10, 40, 50, 60 or 90 times the weight 0.30).                 *)
C27_FlatScores ==
    FlatCall =>
        /\ result.rsi14 = Num(100)
        /\ result.return_20d = Zero
        /\ result.volatility_20d = Zero
        /\ result.composite \in {R(535, 10), R(625, 10), R(655, 10), R(685, 10), R(775, 10)}
        /\ result.composite = R(655, 10) <=> result.ma20 = Price64

(* A constant whose multiples up to 50 are doubles (16, 100) is summed     *)
(* without rounding, and the statement holds of it.                        *)
C27_SummableIsUptrend ==
    (FlatCall /\ prices[1] \in {Num(16), Num(100)}) =>
        /\ result.ma20 = Price64
        /\ result.ma50 = Price64
        /\ result.composite = R(655, 10)
        /\ DefaultThresholds => result.label = UPTREND

(* A constant series labelled Sideways under the thresholds 62/38 *)
C27_FlatSideways ==
    ~ (FlatCall /\ DefaultThresholds /\ result.label = SIDEWAYS)

(* C28: a pipeline run for a run_date whose reports row is referenced by   *)
(* email_logs or tweet_logs rows of an earlier run completes without       *)
(* raising, and in every state each email_logs.report_id and               *)
(* tweet_logs.report_id is the id of a reports row.                        *)
Referenced(db, r) ==
    \/ \E l \in db.email_logs : l.report_id = r.id
    \/ \E l \in db.tweet_logs : l.report_id = r.id

Delivered(db, d) == \E r \in ReportsFor(db, d) : Referenced(db, r)

LogsReferToReports(db) ==
    \A l \in db.email_logs \cup db.tweet_logs :
        \E r \in db.reports : r.id = l.report_id

C28_RerunCompletes ==
    /\ LogsReferToReports(conn)
    /\ (/\ run.op = "run_daily_pipeline"
        /\ ~ run.skipped
        /\ Delivered(conn, run.run_date)) => run.raised = NoException

(* The second half of C28: no log row refers to a report that is gone.     *)
C28_LogsReferToReports == LogsReferToReports(conn)

(* The first half of C28 as it is: a run for a date that has a referenced  *)
(* report ends with IntegrityError and leaves the tables as they were,     *)
(* whereas a run for a date whose report no log refers to, with a price    *)
(* row of the run_date for every ticker that has rows, completes and       *)
(* replaces the report.                                                    *)
C28_RerunRaises ==
    [][(PipelineRan /\ ReportsFor(conn, run'.run_date) # {}) =>
          IF Delivered(conn, run'.run_date)
          THEN /\ run'.raised = IntegrityError
               /\ conn'.reports = conn.reports
               /\ conn'.email_logs = conn.email_logs
               /\ conn'.tweet_logs = conn.tweet_logs
          ELSE (\A i \in 1..Len(tickers) :
                    PricesOf(conn', tickers[i]) # {} =>
                        \E p \in conn'.prices :
                            p.ticker = tickers[i] /\ p.date = run'.run_date) =>
               /\ run'.raised = NoException
               /\ Cardinality(ReportsFor(conn', run'.run_date)) = 1
               /\ ReportsFor(conn', run'.run_date) \cap conn.reports = {}]_vars

(* C29: the indicators row that a pipeline run stores for (ticker,         *)
(* run_date) is computed from the price rows dated on or before run_date   *)
(* only, the price being the adjusted close of the latest such date, also  *)
(* when run_date is earlier than the newest stored price.                  *)
(* The indicators row of (ticker, run_date) computed from the rows dated   *)
(* on or before d.                                                         *)
AsOf(db, ticker, run_date, d) ==
    LET upto   == [db EXCEPT !.prices = {p \in @ : p.date <= d}]
        series == get_adj_close_series(upto, ticker, SERIES_LIMIT)
        closes == list([i \in 1..Len(series) |-> series[i][2]])
        vols   == list([i \in 1..Len(series) |-> series[i][3]])
    IN  IndicatorRecord(ticker, run_date,
            classify(closes, vols, Num(_UPTREND_MIN), Num(_DOWNTREND_MAX), Num(2)))

C29_AsOfRunDate ==
    \A r \in conn.indicators : r = AsOf(conn, r.ticker, r.date, r.date)

(* What the row describes: the market as of the newest price stored when   *)
(* the run computed it, which is the market as of run_date for the runs    *)
(* whose run_date is the day of the run.                                   *)
C29_AsOfNewest ==
    (/\ run.op = "run_daily_pipeline"
     /\ ~ run.skipped
     /\ run.raised = NoException) =>
        \A r \in conn.indicators :
            r.date = run.run_date =>
                /\ r = AsOf(conn, r.ticker, r.date, MaxDay)
                /\ run.run_date = run.today => r = AsOf(conn, r.ticker, r.date, r.date)

(* A run for a past date that stored a row from a later price. *)
C29_PastDate ==
    ~ (/\ run.op = "run_daily_pipeline"
       /\ run.raised = NoException
       /\ run.run_date < run.today
       /\ \E r \in conn.indicators :
              r.date = run.run_date /\ r # AsOf(conn, r.ticker, r.date, r.date))

(* C30: _compute_indicators_for_ticker, for a ticker with at least one     *)
(* stored price row, upserts one indicators row keyed (ticker, run_date)   *)
(* and returns True without raising, whether or not a price row exists for *)
(* (ticker, run_date); it returns False and writes nothing iff the ticker  *)
(* has no price rows; indicators never holds two rows of one (ticker,      *)
(* date).                                                                  *)
IndicatorsOf(db, ticker, d) ==
    {r \in db.indicators : r.ticker = ticker /\ r.date = d}

UniqueIndicators(db) ==
    \A p, q \in db.indicators : SameKey(p, q) => p = q

C30_StoresWheneverHistory ==
    /\ UniqueIndicators(conn)
    /\ run.op = "_compute_indicators_for_ticker" =>
          IF PricesOf(conn, call.ticker) # {}
          THEN /\ run.raised = NoException
               /\ ret = TRUE
               /\ Cardinality(IndicatorsOf(conn, call.ticker, call.run_date)) = 1
          ELSE /\ run.raised = NoException
               /\ ret = FALSE

(* The statement of C30 with the foreign key of indicators: the row is     *)
(* stored when a price row exists for (ticker, run_date); a ticker with    *)
(* rows but none of the run_date makes the call raise IntegrityError; in   *)
(* that case and for a ticker without rows nothing is written.             *)
C30_StoresWhenPriced ==
    /\ [] UniqueIndicators(conn)
    /\ [][run'.op = "_compute_indicators_for_ticker" =>
            /\ conn'.prices = conn.prices
            /\ IF \E p \in conn.prices :
                      p.ticker = call'.ticker /\ p.date = call'.run_date
               THEN /\ run'.raised = NoException
                    /\ ret' = TRUE
                    /\ Cardinality(IndicatorsOf(conn', call'.ticker, call'.run_date)) = 1
                    /\ \A r \in conn.indicators :
                          r \in conn'.indicators
                              \/ (r.ticker = call'.ticker /\ r.date = call'.run_date)
               ELSE /\ conn' = conn
                    /\ ret' = FALSE
                    /\ run'.raised = IF PricesOf(conn, call'.ticker) = {}
                                      THEN NoException ELSE IntegrityError]_vars

(* A call for a ticker that has rows, none of them of the run_date *)
C30_Unpriced ==
    ~ (/\ run.op = "_compute_indicators_for_ticker"
       /\ PricesOf(conn, call.ticker) # {}
       /\ run.raised = IntegrityError)

=============================================================================
